---- MODULE Spec2Model ----
(***************************************************************************)
(* Event pipeline on Redis Streams: producers append typed events to a     *)
(* stream, consumer groups hand the entries out to named consumers, and    *)
(* ConsumerGroupService workers process and acknowledge them.              *)
(*                                                                         *)
(* The Redis commands the code issues (XADD, XGROUP CREATE, XREADGROUP,    *)
(* XACK) are modelled by what the server does with the stream key: the     *)
(* entries, the top id, and per group the last delivered id and the        *)
(* pending entries list.                                                   *)
(***************************************************************************)
EXTENDS Integers, Sequences, FiniteSets, TLC

\* ------------------------------------------------------------------ bounds
MaxTime == 2         \* the store clock runs over 1..MaxTime (milliseconds)
MaxLog == 3          \* at most MaxLog entries are appended to a stream
MaxWorkLog == 2      \* at most MaxWorkLog entries are published to the workers' stream
MaxFaults == 1       \* at most MaxFaults store or database calls of workers fail
MaxPollLog == 1      \* at most MaxPollLog entries are published when both kinds of worker run
MaxDrops == 1        \* the producer's connection is lost at most MaxDrops times
MaxLoops == 2        \* at most MaxLoops loops are started on an instance besides its first
MaxMultiLog == 2     \* at most MaxMultiLog entries per stream are published to a multi-stream consumer

\* --------------------------------------------------------- names and inputs
StreamNames == {"user:events"}
GroupNames == {"g1", "g2"}
ConsumerNames == {"c1", "c2"}
Producers == {"p1", "p2"}
EventTypes == {"user.created", "custom.event"}
\* The event types handleEvent has a case for.
EVENT_TYPES == {"user.created"}
Counts == {1, 2, 10}

\* An entry id is <<milliseconds, sequence number>>, ordered lexicographically.
ZeroId == <<0, 0>>
\* The id arguments the code passes as strings: '*' (auto-assign), '$' (the
\* stream's top id) and '0'.
AUTO_ID == <<-1, -1>>
DOLLAR == <<-2, -2>>
ExplicitIds == {<<1, 0>>, <<2, 1>>}
\* An id no append of this model ever assigns.
UnknownId == <<0, 7>>

IdLT(a, b) == a[1] < b[1] \/ (a[1] = b[1] /\ a[2] < b[2])
IdLE(a, b) == a = b \/ IdLT(a, b)

VARIABLES
  now,        \* the store's clock, in milliseconds
  store,      \* stream name -> stream key (entries, lastId, groups); DOMAIN = existing keys
  appended,   \* producer -> number of addToStream calls that returned an id
  delivered,  \* <<stream, group>> -> the entries readFromConsumerGroup returned, in order: [id, consumer]
  acked,      \* <<stream, group, id>> of the acknowledgeMessage calls that removed a pending entry
  groupStart, \* <<stream, group>> -> last delivered id the group was created with
  workers,    \* worker -> the ConsumerGroupService instance and the position of its loop
  events,     \* the rows of the events table written by the workers
  handled,    \* <<stream, group or consumer id, id>> -> number of handleEvent calls for the entry
  failed,     \* <<stream, group or consumer id, id>> of the entries whose processMessage ran its catch block
  faults,     \* number of store and database calls of workers that have failed
  consumer,   \* the ConsumerService instance and the position of its loop
  stoppedAt,  \* worker -> number of entries of its stream at the StopBlocked call made during
              \* the outstanding read, -1 otherwise
  client,     \* the producer's redis client: its connection and the request in flight
  extra,      \* worker -> the loops of further startConsuming calls on the instance
  api,        \* the users table and the HTTP request being served
  monitor     \* the monitorStream call of the StreamInspector script

workerVars == <<workers, events, handled, failed, faults, consumer, stoppedAt, extra, api, monitor>>
vars == <<now, store, appended, delivered, acked, groupStart, workers, events, handled, failed, faults,
         consumer, stoppedAt, client, extra, api, monitor>>

\* ------------------------------------------------------------ sequences
Ids(entries) == {entries[i].id : i \in 1..Len(entries)}

Min(a, b) == IF a < b THEN a ELSE b

\* ------------------------------------------------------------------ store
EmptyStream == [entries |-> <<>>, lastId |-> ZeroId, groups |-> <<>>]

Exists(st, s) == s \in DOMAIN st
HasGroup(st, s, g) == Exists(st, s) /\ g \in DOMAIN st[s].groups
Put(st, s, obj) == [k \in DOMAIN st \cup {s} |-> IF k = s THEN obj ELSE st[k]]

\* The entries of a stream, none when the key does not exist.
EntriesOf(st, s) == IF Exists(st, s) THEN st[s].entries ELSE <<>>

Ok(v) == [ok |-> TRUE, val |-> v]
Err(m) == [ok |-> FALSE, val |-> m]

\* The id XADD assigns for '*': the clock's millisecond with sequence 0, or the
\* top id's millisecond with the next sequence number when the clock has not
\* passed it.
NextAutoId(lastId, t) ==
  IF t > lastId[1] THEN <<t, 0>> ELSE <<lastId[1], lastId[2] + 1>>

\* Faulty variant: XADD that stamps the entry with the clock (or the id given)
\* without comparing it with the top id.
XaddUnchecked(st, s, idArg, eventType, t) ==
  LET cur == IF Exists(st, s) THEN st[s] ELSE EmptyStream
      id == IF idArg = AUTO_ID THEN <<t, 0>> ELSE idArg
  IN  [st |-> Put(st, s, [cur EXCEPT !.entries = Append(@, [id |-> id, eventType |-> eventType]),
                                     !.lastId = id]),
       reply |-> Ok(id)]

\* XADD key id field value ...: appends one entry; an explicit id must be
\* greater than the stream's top id.
Xadd(st, s, idArg, eventType, t) ==
  LET cur == IF Exists(st, s) THEN st[s] ELSE EmptyStream
      id == IF idArg = AUTO_ID THEN NextAutoId(cur.lastId, t) ELSE idArg
  IN  IF ~IdLT(cur.lastId, id)
      THEN [st |-> st, reply |-> Err("ERR The ID specified in XADD is equal or smaller than the target stream top item")]
      ELSE [st |-> Put(st, s, [cur EXCEPT !.entries = Append(@, [id |-> id, eventType |-> eventType]),
                                          !.lastId = id]),
            reply |-> Ok(id)]

\* Faulty variant: XGROUP CREATE that reads '$' as the start of the stream.
XgroupCreateFromStart(st, s, g, startId) ==
  LET cur == IF Exists(st, s) THEN st[s] ELSE EmptyStream
      grp == [lastDeliveredId |-> IF startId = DOLLAR THEN ZeroId ELSE startId, pel |-> {}]
  IN  IF g \in DOMAIN cur.groups
      THEN [st |-> st, reply |-> Err("BUSYGROUP Consumer Group name already exists")]
      ELSE [st |-> Put(st, s, [cur EXCEPT !.groups =
                       [k \in DOMAIN cur.groups \cup {g} |-> IF k = g THEN grp ELSE cur.groups[k]]]),
            reply |-> Ok("OK")]

\* Faulty variant: XGROUP CREATE that sets the group up again when it exists.
XgroupCreateReset(st, s, g, startId) ==
  LET cur == IF Exists(st, s) THEN st[s] ELSE EmptyStream
      last == IF startId = DOLLAR THEN cur.lastId ELSE startId
      grp == [lastDeliveredId |-> last, pel |-> {}]
  IN  [st |-> Put(st, s, [cur EXCEPT !.groups =
                  [k \in DOMAIN cur.groups \cup {g} |-> IF k = g THEN grp ELSE cur.groups[k]]]),
       reply |-> Ok("OK")]

\* XGROUP CREATE key group id MKSTREAM: creates the key when missing; fails with
\* BUSYGROUP when the group exists; '$' stands for the stream's top id.
XgroupCreate(st, s, g, startId) ==
  LET cur == IF Exists(st, s) THEN st[s] ELSE EmptyStream
      last == IF startId = DOLLAR THEN cur.lastId ELSE startId
      grp == [lastDeliveredId |-> last, pel |-> {}]
  IN  IF g \in DOMAIN cur.groups
      THEN [st |-> st, reply |-> Err("BUSYGROUP Consumer Group name already exists")]
      ELSE [st |-> Put(st, s, [cur EXCEPT !.groups =
                       [k \in DOMAIN cur.groups \cup {g} |-> IF k = g THEN grp ELSE cur.groups[k]]]),
            reply |-> Ok("OK")]

\* Faulty variant: The entries from `after` on, `after` included.
EntriesFrom(entries, after) ==
  SelectSeq(entries, LAMBDA e : IdLE(after, e.id))

\* The entries of a stream with id greater than `after`, oldest first.
EntriesAfter(entries, after) ==
  SelectSeq(entries, LAMBDA e : IdLT(after, e.id))

\* Faulty variant: A delivery that keeps one last delivered id for the whole stream.
DeliverSharedCursor(groups, g, c, got) ==
  LET nacks == {[id |-> got[i].id, consumer |-> c, deliveryCount |-> 1] : i \in 1..Len(got)}
  IN  IF got = <<>> THEN groups
      ELSE [k \in DOMAIN groups |->
             [lastDeliveredId |-> got[Len(got)].id,
              pel |-> IF k = g THEN {p \in groups[k].pel : p.id \notin Ids(got)} \cup nacks
                      ELSE groups[k].pel]]

\* Faulty variant: A delivery that records no pending entry (as with NOACK).
DeliverNoAck(groups, g, c, got) ==
  IF got = <<>> THEN groups
  ELSE [groups EXCEPT ![g].lastDeliveredId = got[Len(got)].id]

\* Faulty variant: A delivery that leaves the last delivered id where it was.
DeliverStaleCursor(groups, g, c, got) ==
  LET nacks == {[id |-> got[i].id, consumer |-> c, deliveryCount |-> 1] : i \in 1..Len(got)}
  IN  [groups EXCEPT ![g].pel = {p \in @ : p.id \notin Ids(got)} \cup nacks]

\* What a delivery does to the groups of the stream: in group g each entry
\* becomes pending for the consumer with delivery count 1 and the last
\* delivered id advances to the last entry returned; no other group changes.
Deliver(groups, g, c, got) ==
  LET nacks == {[id |-> got[i].id, consumer |-> c, deliveryCount |-> 1] : i \in 1..Len(got)}
  IN  IF got = <<>> THEN groups
      ELSE [groups EXCEPT ![g] = [lastDeliveredId |-> got[Len(got)].id,
                                  pel |-> {p \in @.pel : p.id \notin Ids(got)} \cup nacks]]

\* Faulty variant: XREADGROUP that serves the newest `count` entries.
XreadgroupNewest(st, s, g, c, count) ==
  IF ~HasGroup(st, s, g)
  THEN [st |-> st, reply |-> Err("NOGROUP No such key or consumer group")]
  ELSE
    LET avail == EntriesAfter(st[s].entries, st[s].groups[g].lastDeliveredId)
        got == SubSeq(avail, Len(avail) - Min(count, Len(avail)) + 1, Len(avail))
    IN  [st |-> [st EXCEPT ![s].groups = Deliver(@, g, c, got)], reply |-> Ok(got)]

\* Faulty variant: XREADGROUP that ignores COUNT.
XreadgroupUncounted(st, s, g, c, count) ==
  IF ~HasGroup(st, s, g)
  THEN [st |-> st, reply |-> Err("NOGROUP No such key or consumer group")]
  ELSE
    LET got == EntriesAfter(st[s].entries, st[s].groups[g].lastDeliveredId)
    IN  [st |-> [st EXCEPT ![s].groups = Deliver(@, g, c, got)], reply |-> Ok(got)]

\* Faulty variant: XREADGROUP that moves the last delivered id to the stream's top id.
XreadgroupToTop(st, s, g, c, count) ==
  IF ~HasGroup(st, s, g)
  THEN [st |-> st, reply |-> Err("NOGROUP No such key or consumer group")]
  ELSE
    LET avail == EntriesAfter(st[s].entries, st[s].groups[g].lastDeliveredId)
        got == SubSeq(avail, 1, Min(count, Len(avail)))
    IN  [st |-> [st EXCEPT ![s].groups =
                   [Deliver(@, g, c, got) EXCEPT ![g].lastDeliveredId =
                      IF got = <<>> THEN @ ELSE st[s].lastId]],
         reply |-> Ok(got)]

\* XREADGROUP GROUP group consumer COUNT count STREAMS key '>': the first
\* `count` entries after the group's last delivered id, delivered to the
\* consumer.  The reply is empty when there is none.
Xreadgroup(st, s, g, c, count) ==
  IF ~HasGroup(st, s, g)
  THEN [st |-> st, reply |-> Err("NOGROUP No such key or consumer group")]
  ELSE
    LET avail == EntriesAfter(st[s].entries, st[s].groups[g].lastDeliveredId)
        got == SubSeq(avail, 1, Min(count, Len(avail)))
    IN  [st |-> [st EXCEPT ![s].groups = Deliver(@, g, c, got)], reply |-> Ok(got)]

\* Faulty variant: XACK that answers an id that is not pending with an error.
XackStrict(st, s, g, id) ==
  IF ~HasGroup(st, s, g) \/ \A p \in st[s].groups[g].pel : p.id # id
  THEN [st |-> st, reply |-> Err("ERR no such pending entry")]
  ELSE [st |-> [st EXCEPT ![s].groups[g].pel = {p \in @ : p.id # id}], reply |-> Ok(1)]

\* Faulty variant: XACK that acknowledges every pending id up to the one given.
XackUpTo(st, s, g, id) ==
  IF ~HasGroup(st, s, g)
  THEN [st |-> st, reply |-> Ok(0)]
  ELSE
    LET hit == {p \in st[s].groups[g].pel : IdLE(p.id, id)}
    IN  [st |-> [st EXCEPT ![s].groups[g].pel = @ \ hit], reply |-> Ok(Cardinality(hit))]

\* XACK key group id: removes the id from the group's pending entries; the
\* reply is the number of entries removed (0 when the key, the group or the
\* pending entry does not exist).
Xack(st, s, g, id) ==
  IF ~HasGroup(st, s, g)
  THEN [st |-> st, reply |-> Ok(0)]
  ELSE
    LET grp == st[s].groups[g]
        hit == {p \in grp.pel : p.id = id}
    IN  [st |-> [st EXCEPT ![s].groups[g].pel = grp.pel \ hit],
         reply |-> Ok(Cardinality(hit))]

\* -------------------------------------------------------- streamUtils calls
\* Each call returns the store after it and either the value returned
\* (threw = FALSE) or that it threw; `up` says whether the store answers.
Returned(st, v) == [st |-> st, threw |-> FALSE, val |-> v]
Threw(st) == [st |-> st, threw |-> TRUE, val |-> <<>>]

addToStream(st, s, eventType, idArg, t, up) ==
  LET r == Xadd(st, s, idArg, eventType, t)
  IN  IF up /\ r.reply.ok THEN Returned(r.st, r.reply.val) ELSE Threw(st)

createConsumerGroup(st, s, g, startId, up) ==
  LET r == XgroupCreate(st, s, g, startId)
  IN  IF ~up THEN Threw(st)
      ELSE IF r.reply.ok THEN Returned(r.st, TRUE)
      ELSE Returned(st, TRUE)

readFromConsumerGroup(st, s, g, c, count, up) ==
  LET r == Xreadgroup(st, s, g, c, count)
  IN  IF up /\ r.reply.ok THEN Returned(r.st, r.reply.val) ELSE Threw(st)

acknowledgeMessage(st, s, g, id, up) ==
  LET r == Xack(st, s, g, id)
  IN  IF up /\ r.reply.ok THEN Returned(r.st, r.reply.val) ELSE Threw(st)

\* XREAD COUNT count STREAMS key id (no BLOCK): the first `count` entries
\* after the id, '$' standing for the stream's top id; nothing (a nil reply)
\* when there is none or the key does not exist.  It changes nothing.
Xread(st, s, after, count) ==
  IF ~Exists(st, s) THEN [st |-> st, reply |-> Ok(<<>>)]
  ELSE
    LET from == IF after = DOLLAR THEN st[s].lastId ELSE after
        avail == EntriesAfter(st[s].entries, from)
    IN  [st |-> st, reply |-> Ok(SubSeq(avail, 1, Min(count, Len(avail))))]

readFromStream(st, s, startId, count, up) ==
  LET r == Xread(st, s, startId, count)
  IN  IF up /\ r.reply.ok THEN Returned(r.st, r.reply.val) ELSE Threw(st)

\* ------------------------------------------------------------------ workers
\* The ConsumerGroupService instances: new ConsumerGroupService(groupName, consumerName).
Workers == {"w1", "w2"}
groupName(w) == "g1"
consumerName(w) == IF w = "w1" THEN "c1" ELSE "c2"
\* The stream the workers consume (STREAMS.USER_EVENTS).
USER_EVENTS == "user:events"

\* pc is where the instance's loop is suspended: "idle" (startConsuming not
\* called), "read" (awaiting readFromConsumerGroup), "sleep" (awaiting the
\* sleep after an error), "save", "handle", "ack", "mark", "error" (awaiting the
\* call of that name inside processMessage for Head(batch)), "done" (the loop
\* has ended).
IdleWorker == [isRunning |-> FALSE, pc |-> "idle", streamName |-> "user:events",
               batch |-> <<>>, batchSize |-> 1, blockTime |-> 0]

\* The ConsumerService instance: new ConsumerService(consumerId).  pc is where
\* its loop is suspended: "idle", "read" (awaiting readFromStream), "sleep"
\* (awaiting sleep(pollInterval)), "save", "mark", "error" (awaiting
\* saveEventToDatabase, handleEvent's markEventAsProcessed or
\* handleProcessingError for Head(batch)), "done".  startId is the parameter
\* of startConsuming, which the loop reassigns.
CONSUMER_ID == "example-consumer"
NewConsumer == [isRunning |-> FALSE, pc |-> "idle", startId |-> ZeroId, batchSize |-> 10,
                batch |-> <<>>, processedMessages |-> {}, streams |-> <<>>]

\* The events table (Event model); a row's timestamps are left out.
EventCreate(rows, streamId, eventType, consumerId) ==
  rows \cup {[pk |-> Cardinality(rows) + 1, streamId |-> streamId, eventType |-> eventType,
              consumerId |-> consumerId, processed |-> FALSE, error |-> ""]}

\* Event.update({processed: true}, {where: {streamId}}); a database error is
\* caught and logged.
markEventAsProcessed(rows, messageId, ok) ==
  IF ok THEN {IF r.streamId = messageId THEN [r EXCEPT !.processed = TRUE] ELSE r : r \in rows}
  ELSE rows

\* Event.update({error: error.message}, {where: {streamId}}); a database error
\* is caught and logged.
handleProcessingError(rows, messageId, ok) ==
  IF ok THEN {IF r.streamId = messageId THEN [r EXCEPT !.error = "error"] ELSE r : r \in rows}
  ELSE rows

\* The producer's ioredis client (new Redis({..., maxRetriesPerRequest: null}))
\* and the ProducerService request in flight.  kind is "none", "publish" (one
\* of the publish methods: return await addToStream(...)) or "batchPublish";
\* cmds holds the XADD command of each addToStream call: its status ("queued"
\* in the client, "sent", "executed" by the store with the reply on its way,
\* "resolved", "rejected"), the id in the reply, how often it was sent and how
\* many entries it has appended; reply is what the caller of the request
\* gets: "pending", "returned" with ids, or "threw".
NewClient == [ready |-> TRUE, drops |-> 0, kind |-> "none", cmds |-> <<>>,
              reply |-> [status |-> "returned", ids |-> <<>>]]

\* The express application: the ids of the rows of the users table and the
\* request being served, with the body it carried, the position of its
\* handler, what the handler has done so far and the status of the response
\* (0 while there is none).
NoRequest == [kind |-> "none", pc |-> "done", user |-> 0, body |-> [isArray |-> FALSE, events |-> <<>>],
              dbChanged |-> FALSE, appended |-> FALSE, before |-> 0, status |-> 0]
NewApi == [users |-> {}, req |-> NoRequest]

\* StreamInspector.monitorStream: the position of its loop, lastId, the id
\* the outstanding XREAD waits above, and the ids it has reported, in order;
\* since is the number of entries the stream had when the first XREAD
\* reached the store.
NewMonitor == [pc |-> "idle", lastId |-> DOLLAR, from |-> ZeroId, reported |-> <<>>, since |-> 0]

\* The loops of further startConsuming calls on an instance whose loop is
\* active: how many await their read and how many their sleep.
NoLoops == [read |-> 0, sleep |-> 0]

\* ------------------------------------------------------------------- state
Key(s, g) == <<s, g>>
Keys == StreamNames \X GroupNames

Init ==
  /\ now = 1
  /\ store = <<>>
  /\ appended = [p \in Producers |-> 0]
  /\ delivered = [k \in Keys |-> <<>>]
  /\ acked = {}
  /\ groupStart = <<>>
  /\ workers = [w \in Workers |-> IdleWorker]
  /\ events = {}
  /\ handled = <<>>
  /\ failed = {}
  /\ faults = 0
  /\ consumer = NewConsumer
  /\ stoppedAt = [w \in Workers |-> -1]
  /\ client = NewClient
  /\ extra = [w \in Workers |-> NoLoops]
  /\ api = NewApi
  /\ monitor = NewMonitor

StreamLen(s) == IF Exists(store, s) THEN Len(store[s].entries) ELSE 0

\* The clock advances.
Tick ==
  /\ now < MaxTime
  /\ now' = now + 1
  /\ UNCHANGED <<store, appended, delivered, acked, groupStart, workerVars, client>>

\* A producer calls addToStream.
AddToStream(p, s, eventType, idArg, up) ==
  /\ StreamLen(s) < MaxLog
  /\ LET r == addToStream(store, s, eventType, idArg, now, up)
     IN  /\ store' = r.st
         /\ appended' = IF r.threw THEN appended ELSE [appended EXCEPT ![p] = @ + 1]
  /\ UNCHANGED <<now, delivered, acked, groupStart, workerVars, client>>

\* A caller creates a group on a stream.
CreateConsumerGroup(s, g, startId, up) ==
  /\ LET r == createConsumerGroup(store, s, g, startId, up)
     IN  /\ store' = r.st
         /\ groupStart' = IF HasGroup(r.st, s, g) /\ ~HasGroup(store, s, g)
                          THEN Put(groupStart, Key(s, g), r.st[s].groups[g].lastDeliveredId)
                          ELSE groupStart
  /\ UNCHANGED <<now, appended, delivered, acked, workerVars, client>>

\* What a result adds to `delivered`.
Handed(c, got) == [i \in 1..Len(got) |-> [id |-> got[i].id, consumer |-> c]]

\* A consumer calls readFromConsumerGroup and the call completes: with the
\* entries, with an error, or empty once the block time has passed.  With
\* BLOCK 0 the command waits until there is an entry.
ReadFromConsumerGroup(s, g, c, count, blockTime, up) ==
  /\ LET r == readFromConsumerGroup(store, s, g, c, count, up)
     IN  /\ r.threw \/ r.val # <<>> \/ blockTime > 0
         /\ store' = r.st
         /\ delivered' = IF r.threw THEN delivered
                         ELSE [delivered EXCEPT ![Key(s, g)] = @ \o Handed(c, r.val)]
  /\ UNCHANGED <<now, appended, acked, groupStart, workerVars, client>>

\* A caller acknowledges an id.
AcknowledgeMessage(s, g, id, up) ==
  /\ LET r == acknowledgeMessage(store, s, g, id, up)
     IN  /\ store' = r.st
         /\ acked' = IF ~r.threw /\ r.val > 0 THEN acked \cup {<<s, g, id>>} ELSE acked
  /\ UNCHANGED <<now, appended, delivered, groupStart, workerVars, client>>

IdArgs == {AUTO_ID} \cup ExplicitIds
StartIds == {ZeroId, DOLLAR}
BlockTimes == {0, 1000}
\* The ids a caller may acknowledge: those of the stream and one that is not.
AckIds(s) == (IF Exists(store, s) THEN Ids(store[s].entries) ELSE {}) \cup {UnknownId}

\* The group calls issued on groups G by consumers C.
GroupCalls(G, C) ==
  \/ \E s \in StreamNames, g \in G, startId \in StartIds, up \in BOOLEAN :
       CreateConsumerGroup(s, g, startId, up)
  \/ \E s \in StreamNames, g \in G, c \in C, count \in Counts,
        blockTime \in BlockTimes, up \in BOOLEAN :
       ReadFromConsumerGroup(s, g, c, count, blockTime, up)
  \/ \E s \in StreamNames, g \in G, up \in BOOLEAN :
       \E id \in AckIds(s) : AcknowledgeMessage(s, g, id, up)

\* One producer appending with auto-assigned ids.
Produce ==
  \E s \in StreamNames, up \in BOOLEAN : AddToStream("p1", s, "user.created", AUTO_ID, up)

\* ------------------------------------------------- ConsumerGroupService steps
storeVars == <<now, store, appended, delivered, acked, groupStart>>

\* A call of a worker that fails counts against MaxFaults.
Faulty(okay) ==
  IF okay THEN faults' = faults ELSE faults < MaxFaults /\ faults' = faults + 1

\* Faulty variant: a loop that ends when its catch block has run.
ContinueUnlessCaught(w) ==
  IF workers[w].isRunning /\ workers[w].pc # "sleep" THEN "read" ELSE "done"

\* while (this.isRunning): the next read is issued, or the loop ends.
Continue(w) == IF workers[w].isRunning THEN "read" ELSE "done"

\* Faulty variant: a processMessage that rethrows: the error reaches the
\* catch block of the loop and the rest of the batch is dropped.
AfterMessageRethrow(w) ==
  LET rest == Tail(workers[w].batch)
  IN  IF workers[w].pc = "error"
      THEN [workers EXCEPT ![w].batch = <<>>, ![w].pc = "sleep"]
      ELSE [workers EXCEPT ![w].batch = rest,
                           ![w].pc = IF rest # <<>> THEN "save" ELSE Continue(w)]

\* The for loops over the batch: processMessage of the next message starts
\* (its fields are parsed and Event.create is issued), or the batch is over.
AfterMessage(w) ==
  LET rest == Tail(workers[w].batch)
  IN  [workers EXCEPT ![w].batch = rest,
                      ![w].pc = IF rest # <<>> THEN "save" ELSE Continue(w)]

\* initializeGroup(streamName, startId), before the loop is started.
InitializeGroup(w, s, startId, up) ==
  /\ workers[w].pc = "idle"
  /\ Faulty(up)
  /\ LET r == createConsumerGroup(store, s, groupName(w), startId, up)
     IN  /\ store' = r.st
         /\ groupStart' = IF HasGroup(r.st, s, groupName(w)) /\ ~HasGroup(store, s, groupName(w))
                          THEN Put(groupStart, Key(s, groupName(w)),
                                   r.st[s].groups[groupName(w)].lastDeliveredId)
                          ELSE groupStart
  /\ UNCHANGED <<now, appended, delivered, acked, workers, events, handled, failed, consumer, client, extra, api, monitor, stoppedAt>>

\* startConsuming(streamName, batchSize, blockTime): sets isRunning and issues
\* the first read.  It is called on an instance that has no loop running: a
\* new one, or one whose loop has ended after stop().
StartConsuming(w, s, batchSize, blockTime) ==
  /\ workers[w].pc \in {"idle", "done"}
  /\ workers' = [workers EXCEPT ![w] = [isRunning |-> TRUE, pc |-> "read", streamName |-> s,
                                        batch |-> <<>>, batchSize |-> batchSize,
                                        blockTime |-> blockTime]]
  /\ UNCHANGED <<storeVars, events, handled, failed, faults, consumer, client, extra, api, monitor, stoppedAt>>

\* The read of the loop completes: with entries (processMessage of the first
\* starts), empty after the block time, or with an error (the catch block
\* sleeps).
ReadReturn(w, up) ==
  /\ workers[w].pc = "read"
  /\ Faulty(up)
  /\ LET s == workers[w].streamName
         r == readFromConsumerGroup(store, s, groupName(w), consumerName(w),
                                    workers[w].batchSize, up)
     IN  /\ r.threw \/ r.val # <<>> \/ workers[w].blockTime > 0
         /\ store' = r.st
         /\ delivered' = IF r.threw THEN delivered
                         ELSE [delivered EXCEPT ![Key(s, groupName(w))] =
                                 @ \o Handed(consumerName(w), r.val)]
         /\ workers' = IF r.threw THEN [workers EXCEPT ![w].pc = "sleep"]
                       ELSE IF r.val # <<>> THEN [workers EXCEPT ![w].batch = r.val, ![w].pc = "save"]
                       ELSE [workers EXCEPT ![w].pc = Continue(w)]
  /\ stoppedAt' = [stoppedAt EXCEPT ![w] = -1]
  /\ UNCHANGED <<now, appended, acked, groupStart, events, handled, failed, consumer, client, extra, api, monitor>>

\* await this.sleep(1000) in the catch block of the loop ends.
SleepReturn(w) ==
  /\ workers[w].pc = "sleep"
  /\ workers' = [workers EXCEPT ![w].pc = Continue(w)]
  /\ UNCHANGED <<storeVars, events, handled, failed, faults, consumer, client, extra, api, monitor, stoppedAt>>

\* Faulty variant: a saveEventToDatabase that logs the error of Event.create
\* and returns, as markEventAsProcessed does.
SaveReturnLenient(w, ok) ==
  /\ workers[w].pc = "save"
  /\ Faulty(ok)
  /\ LET m == Head(workers[w].batch)
         k == <<workers[w].streamName, groupName(w), m.id>>
     IN  /\ events' = IF ok THEN EventCreate(events, m.id, m.eventType,
                                              <<groupName(w), consumerName(w)>>)
                      ELSE events
         /\ handled' = Put(handled, k, IF k \in DOMAIN handled THEN handled[k] + 1 ELSE 1)
         /\ workers' = [workers EXCEPT ![w].pc = "handle"]
         /\ UNCHANGED failed
  /\ UNCHANGED <<storeVars, consumer, client, extra, api, monitor, stoppedAt>>

\* saveEventToDatabase returns and handleEvent is called, or it throws and
\* the catch block of processMessage runs.
SaveReturn(w, ok) ==
  /\ workers[w].pc = "save"
  /\ Faulty(ok)
  /\ LET m == Head(workers[w].batch)
         k == <<workers[w].streamName, groupName(w), m.id>>
     IN  IF ok
         THEN /\ events' = EventCreate(events, m.id, m.eventType, <<groupName(w), consumerName(w)>>)
              /\ handled' = Put(handled, k, IF k \in DOMAIN handled THEN handled[k] + 1 ELSE 1)
              /\ workers' = [workers EXCEPT ![w].pc = "handle"]
              /\ UNCHANGED failed
         ELSE /\ failed' = failed \cup {k}
              /\ workers' = [workers EXCEPT ![w].pc = "error"]
              /\ UNCHANGED <<events, handled>>
  /\ UNCHANGED <<storeVars, consumer, client, extra, api, monitor, stoppedAt>>

\* Faulty variant: a handleEvent whose default case throws.
handleEventStrict(eventType) ==
  IF eventType \in EVENT_TYPES THEN "handler" ELSE "threw"

\* handleEvent(eventType, ...): the case of the type calls its handler, which
\* logs and sleeps; the default case logs the unknown type.  Neither throws.
handleEvent(eventType) ==
  IF eventType \in EVENT_TYPES THEN "handler" ELSE "unknown"

\* handleEvent returns and acknowledgeMessage is called (a handleEvent that
\* threw would run the catch block of processMessage).
HandleReturn(w) ==
  /\ workers[w].pc = "handle"
  /\ LET m == Head(workers[w].batch)
     IN  IF handleEvent(m.eventType) = "threw"
         THEN /\ failed' = failed \cup {<<workers[w].streamName, groupName(w), m.id>>}
              /\ workers' = [workers EXCEPT ![w].pc = "error"]
         ELSE /\ failed' = failed
              /\ workers' = [workers EXCEPT ![w].pc = "ack"]
  /\ UNCHANGED <<storeVars, events, handled, faults, consumer, client, extra, api, monitor, stoppedAt>>

\* Faulty variant: an acknowledgeMessage whose error is logged and not
\* rethrown, so that markEventAsProcessed is called after a failed XACK.
AckReturnLenient(w, up) ==
  /\ workers[w].pc = "ack"
  /\ Faulty(up)
  /\ LET s == workers[w].streamName
         m == Head(workers[w].batch)
         r == acknowledgeMessage(store, s, groupName(w), m.id, up)
     IN  /\ store' = r.st
         /\ acked' = IF ~r.threw /\ r.val > 0 THEN acked \cup {<<s, groupName(w), m.id>>} ELSE acked
         /\ failed' = failed
         /\ workers' = [workers EXCEPT ![w].pc = "mark"]
  /\ UNCHANGED <<now, appended, delivered, groupStart, events, handled, consumer, client, extra, api, monitor, stoppedAt>>

\* acknowledgeMessage returns and markEventAsProcessed is called, or it
\* throws and the catch block of processMessage runs.
AckReturn(w, up) ==
  /\ workers[w].pc = "ack"
  /\ Faulty(up)
  /\ LET s == workers[w].streamName
         m == Head(workers[w].batch)
         r == acknowledgeMessage(store, s, groupName(w), m.id, up)
     IN  /\ store' = r.st
         /\ acked' = IF ~r.threw /\ r.val > 0 THEN acked \cup {<<s, groupName(w), m.id>>} ELSE acked
         /\ failed' = IF r.threw THEN failed \cup {<<s, groupName(w), m.id>>} ELSE failed
         /\ workers' = [workers EXCEPT ![w].pc = IF r.threw THEN "error" ELSE "mark"]
  /\ UNCHANGED <<now, appended, delivered, groupStart, events, handled, consumer, client, extra, api, monitor, stoppedAt>>

\* markEventAsProcessed returns: processMessage is over.
MarkReturn(w, ok) ==
  /\ workers[w].pc = "mark"
  /\ Faulty(ok)
  /\ events' = markEventAsProcessed(events, Head(workers[w].batch).id, ok)
  /\ workers' = AfterMessage(w)
  /\ UNCHANGED <<storeVars, handled, failed, consumer, client, extra, api, monitor, stoppedAt>>

\* handleProcessingError returns: processMessage is over, the message is not
\* acknowledged.
ErrorReturn(w, ok) ==
  /\ workers[w].pc = "error"
  /\ Faulty(ok)
  /\ events' = handleProcessingError(events, Head(workers[w].batch).id, ok)
  /\ workers' = AfterMessage(w)
  /\ UNCHANGED <<storeVars, handled, failed, consumer, client, extra, api, monitor, stoppedAt>>

\* The read of the loop is outstanding and the store has nothing to return:
\* the command is blocked for up to the block time.
Blocked(w) ==
  /\ workers[w].pc = "read"
  /\ workers[w].blockTime > 0
  /\ LET r == readFromConsumerGroup(store, workers[w].streamName, groupName(w),
                                    consumerName(w), workers[w].batchSize, TRUE)
     IN  ~r.threw /\ r.val = <<>>

\* stop()
Stop(w) ==
  /\ workers[w].isRunning
  /\ workers' = [workers EXCEPT ![w].isRunning = FALSE]
  /\ UNCHANGED <<storeVars, events, handled, failed, faults, consumer, client, extra, api, monitor, stoppedAt>>

\* stop() called while the read of the loop is blocked; the number of entries
\* the stream has at the call is recorded.
StopBlocked(w) ==
  /\ workers[w].isRunning
  /\ Blocked(w)
  /\ workers' = [workers EXCEPT ![w].isRunning = FALSE]
  /\ stoppedAt' = [stoppedAt EXCEPT ![w] = StreamLen(workers[w].streamName)]
  /\ UNCHANGED <<storeVars, events, handled, failed, faults, consumer, client, extra, api, monitor>>

\* SIGINT: process.exit(0), wherever the loop is; the consumer name can be
\* started again in a new process.
Kill(w) ==
  /\ workers[w].pc # "idle"
  /\ workers' = [workers EXCEPT ![w] = IdleWorker]
  /\ stoppedAt' = [stoppedAt EXCEPT ![w] = -1]
  /\ extra' = [extra EXCEPT ![w] = NoLoops]
  /\ UNCHANGED <<storeVars, events, handled, failed, faults, consumer, client, api, monitor>>

\* A producer publishes to the stream the workers consume.
Publish ==
  /\ StreamLen(USER_EVENTS) < MaxWorkLog
  /\ \E up \in BOOLEAN : AddToStream("p1", USER_EVENTS, "user.created", AUTO_ID, up)

BatchSizes == {1, 2}

\* The steps the event loop takes for a started worker.
WorkerStep(w) ==
  \/ \E up \in BOOLEAN : ReadReturn(w, up)
  \/ SleepReturn(w)
  \/ \E ok \in BOOLEAN : SaveReturn(w, ok)
  \/ HandleReturn(w)
  \/ \E up \in BOOLEAN : AckReturn(w, up)
  \/ \E ok \in BOOLEAN : MarkReturn(w, ok)
  \/ \E ok \in BOOLEAN : ErrorReturn(w, ok)

\* ------------------------------------------------------ ConsumerService steps
\* while (this.isRunning) of ConsumerService.startConsuming.
ConsumerContinue == IF consumer.isRunning THEN "read" ELSE "done"

\* if (!this.processedMessages.has(messageId)): the messages of a batch the
\* for loops call processMessage for.
Unprocessed(batch, processedMessages) ==
  SelectSeq(batch, LAMBDA m : m.id \notin processedMessages)

\* Faulty variant: a loop that leaves startId where startConsuming got it.
ProcessedKeepCursor ==
  LET m == Head(consumer.batch)
      done == consumer.processedMessages \cup {m.id}
      rest == Unprocessed(Tail(consumer.batch), done)
  IN  [consumer EXCEPT !.processedMessages = done, !.batch = rest,
                       !.pc = IF rest # <<>> THEN "save" ELSE ConsumerContinue]

\* processMessage has returned: this.processedMessages.add(messageId);
\* startId = messageId; then the next message of the batch that is not
\* processed, or the next turn of the loop.
Processed ==
  LET m == Head(consumer.batch)
      done == consumer.processedMessages \cup {m.id}
      rest == Unprocessed(Tail(consumer.batch), done)
  IN  [consumer EXCEPT !.processedMessages = done, !.startId = m.id, !.batch = rest,
                       !.pc = IF rest # <<>> THEN "save" ELSE ConsumerContinue]

\* ConsumerService.startConsuming(streamName, startId, batchSize, pollInterval)
\* on an instance that has no loop running: sets isRunning and issues the
\* first read.
ConsumerStartConsuming(startId, batchSize) ==
  /\ consumer.pc \in {"idle", "done"}
  /\ consumer' = [consumer EXCEPT !.isRunning = TRUE, !.pc = "read", !.startId = startId,
                                  !.batchSize = batchSize, !.batch = <<>>]
  /\ UNCHANGED <<storeVars, workers, client, extra, api, monitor, events, handled, failed, faults, stoppedAt>>

\* readFromStream returns: with messages (processMessage starts for the
\* first that is not processed), with none (sleep(pollInterval)), or it
\* throws (the catch block sleeps pollInterval).
ConsumerReadReturn(up) ==
  /\ consumer.pc = "read"
  /\ Faulty(up)
  /\ LET r == readFromStream(store, USER_EVENTS, consumer.startId, consumer.batchSize, up)
         todo == Unprocessed(r.val, consumer.processedMessages)
     IN  consumer' = IF r.threw \/ r.val = <<>> THEN [consumer EXCEPT !.pc = "sleep"]
                     ELSE IF todo # <<>> THEN [consumer EXCEPT !.batch = todo, !.pc = "save"]
                     ELSE [consumer EXCEPT !.pc = ConsumerContinue]
  /\ UNCHANGED <<storeVars, workers, client, extra, api, monitor, events, handled, failed, stoppedAt>>

\* await this.sleep(pollInterval) ends.
ConsumerSleepReturn ==
  /\ consumer.pc = "sleep"
  /\ consumer' = [consumer EXCEPT !.pc = ConsumerContinue]
  /\ UNCHANGED <<storeVars, workers, client, extra, api, monitor, events, handled, failed, faults, stoppedAt>>

\* The fields are parsed and saveEventToDatabase returns (handleEvent runs
\* the handler, which only logs, and calls markEventAsProcessed), or one of
\* them throws and the catch block of processMessage runs.
ConsumerSaveReturn(ok) ==
  /\ consumer.pc = "save"
  /\ Faulty(ok)
  /\ LET m == Head(consumer.batch)
         k == <<USER_EVENTS, CONSUMER_ID, m.id>>
     IN  IF ok
         THEN /\ events' = EventCreate(events, m.id, m.eventType, <<"", CONSUMER_ID>>)
              /\ handled' = Put(handled, k, IF k \in DOMAIN handled THEN handled[k] + 1 ELSE 1)
              /\ consumer' = [consumer EXCEPT !.pc = "mark"]
              /\ UNCHANGED failed
         ELSE /\ failed' = failed \cup {k}
              /\ consumer' = [consumer EXCEPT !.pc = "error"]
              /\ UNCHANGED <<events, handled>>
  /\ UNCHANGED <<storeVars, workers, client, extra, api, monitor, stoppedAt>>

\* markEventAsProcessed at the end of handleEvent returns: processMessage is
\* over.
ConsumerMarkReturn(ok) ==
  /\ consumer.pc = "mark"
  /\ Faulty(ok)
  /\ events' = markEventAsProcessed(events, Head(consumer.batch).id, ok)
  /\ consumer' = Processed
  /\ UNCHANGED <<storeVars, workers, client, extra, api, monitor, handled, failed, stoppedAt>>

\* handleProcessingError returns: processMessage is over.
ConsumerErrorReturn(ok) ==
  /\ consumer.pc = "error"
  /\ Faulty(ok)
  /\ events' = handleProcessingError(events, Head(consumer.batch).id, ok)
  /\ consumer' = Processed
  /\ UNCHANGED <<storeVars, workers, client, extra, api, monitor, handled, failed, stoppedAt>>

\* ConsumerService.stop()
ConsumerStop ==
  /\ consumer.isRunning
  /\ consumer' = [consumer EXCEPT !.isRunning = FALSE]
  /\ UNCHANGED <<storeVars, workers, client, extra, api, monitor, events, handled, failed, faults, stoppedAt>>

\* The steps the event loop takes for the started ConsumerService.
ConsumerStep ==
  \/ \E up \in BOOLEAN : ConsumerReadReturn(up)
  \/ ConsumerSleepReturn
  \/ \E ok \in BOOLEAN : ConsumerSaveReturn(ok)
  \/ \E ok \in BOOLEAN : ConsumerMarkReturn(ok)
  \/ \E ok \in BOOLEAN : ConsumerErrorReturn(ok)

\* startConsuming(STREAMS.USER_EVENTS, '0', 5, 1000) of the startConsumer
\* script, and a batch of one.
ConsumerBatchSizes == {1, 5}

\* A ConsumerService that is started and stopped while a producer publishes.
ConsumerNext ==
  \/ Publish
  \/ \E startId \in StartIds, batchSize \in ConsumerBatchSizes :
       ConsumerStartConsuming(startId, batchSize)
  \/ ConsumerStep
  \/ ConsumerStop

ConsumerSpec == Init /\ [][ConsumerNext]_vars

\* ----------------------------------------------------------- ProducerService
\* The first command of the request with the status, 0 when there is none:
\* one connection carries commands and replies in order.
FirstWith(status) ==
  IF \E i \in 1..Len(client.cmds) : client.cmds[i].status = status
  THEN CHOOSE i \in 1..Len(client.cmds) :
         /\ client.cmds[i].status = status
         /\ \A j \in 1..(i - 1) : client.cmds[j].status # status
  ELSE 0

Settled(cmds) == \A i \in 1..Len(cmds) : cmds[i].status \in {"resolved", "rejected"}

\* Faulty variant: a batchPublish that collects the ids newest first.
PromiseAllReversed(cmds, reply) ==
  IF reply.status # "pending" THEN reply
  ELSE IF \E i \in 1..Len(cmds) : cmds[i].status = "rejected"
       THEN [status |-> "threw", ids |-> <<>>]
       ELSE IF Settled(cmds)
            THEN [status |-> "returned",
                  ids |-> [i \in 1..Len(cmds) |-> cmds[Len(cmds) + 1 - i].id]]
            ELSE reply

\* return await addToStream(...) and return await Promise.all(promises): the
\* request throws as soon as one addToStream call has thrown, and returns the
\* ids when all calls have returned.
PromiseAll(cmds, reply) ==
  IF reply.status # "pending" THEN reply
  ELSE IF \E i \in 1..Len(cmds) : cmds[i].status = "rejected"
       THEN [status |-> "threw", ids |-> <<>>]
       ELSE IF Settled(cmds)
            THEN [status |-> "returned", ids |-> [i \in 1..Len(cmds) |-> cmds[i].id]]
            ELSE reply

\* A publish method or batchPublish(events) is called: each addToStream call
\* issues its XADD, which the client writes to the connection, or queues
\* while the connection is down.
Calls(kind, eventTypes) ==
  [client EXCEPT
     !.kind = kind,
     !.cmds = [i \in 1..Len(eventTypes) |->
                 [eventType |-> eventTypes[i],
                  status |-> IF client.ready THEN "sent" ELSE "queued",
                  id |-> ZeroId,
                  sends |-> IF client.ready THEN 1 ELSE 0,
                  applied |-> 0]],
     !.reply = [status |-> "pending", ids |-> <<>>]]

Request(kind, eventTypes) ==
  /\ client.reply.status # "pending"
  /\ Settled(client.cmds)
  /\ StreamLen(USER_EVENTS) + Len(eventTypes) <= MaxLog
  /\ client' = Calls(kind, eventTypes)
  /\ UNCHANGED <<storeVars, workerVars>>

\* The store executes the next command it was sent: XADD appends the entry,
\* or answers with an error and appends nothing.
Execute(up) ==
  /\ FirstWith("sent") # 0
  /\ Faulty(up)
  /\ LET i == FirstWith("sent")
         r == Xadd(store, USER_EVENTS, AUTO_ID, client.cmds[i].eventType, now)
     IN  IF up /\ r.reply.ok
         THEN /\ store' = r.st
              /\ client' = [client EXCEPT !.cmds[i].status = "executed",
                                          !.cmds[i].id = r.reply.val,
                                          !.cmds[i].applied = @ + 1]
         ELSE /\ store' = store
              /\ client' = [client EXCEPT !.cmds[i].status = "executed",
                                          !.cmds[i].id = ZeroId]
  /\ UNCHANGED <<now, appended, delivered, acked, groupStart, workers, events, handled, failed,
                 consumer, stoppedAt, extra, api, monitor>>

\* The client receives the next reply: the addToStream call returns the id
\* or throws the error, and the request settles as Promise.all does.
Receive ==
  /\ FirstWith("executed") # 0
  /\ FirstWith("sent") = 0 \/ FirstWith("executed") < FirstWith("sent")
  /\ LET i == FirstWith("executed")
         cmds == [client.cmds EXCEPT ![i].status =
                    IF client.cmds[i].id = ZeroId THEN "rejected" ELSE "resolved"]
     IN  client' = [client EXCEPT !.cmds = cmds, !.reply = PromiseAll(cmds, client.reply)]
  /\ UNCHANGED <<storeVars, workerVars>>

\* The connection is lost: the replies on their way are lost with it, and
\* the commands that have no reply yet are kept to be sent again
\* (autoResendUnfulfilledCommands); with maxRetriesPerRequest: null none of
\* them is ever rejected for the lost connection.
Disconnect ==
  /\ client.ready
  /\ client.drops < MaxDrops
  /\ client' = [client EXCEPT
                  !.ready = FALSE,
                  !.drops = @ + 1,
                  !.cmds = [i \in 1..Len(client.cmds) |->
                              IF client.cmds[i].status \in {"sent", "executed"}
                              THEN [client.cmds[i] EXCEPT !.status = "queued", !.id = ZeroId]
                              ELSE client.cmds[i]]]
  /\ UNCHANGED <<storeVars, workerVars>>

\* The client has reconnected (retryStrategy) and sends what it has queued.
Reconnect ==
  /\ ~client.ready
  /\ client' = [client EXCEPT
                  !.ready = TRUE,
                  !.cmds = [i \in 1..Len(client.cmds) |->
                              IF client.cmds[i].status = "queued"
                              THEN [client.cmds[i] EXCEPT !.status = "sent", !.sends = @ + 1]
                              ELSE client.cmds[i]]]
  /\ UNCHANGED <<storeVars, workerVars>>

\* The batches a caller of batchPublish passes.
Batches == {<<a>> : a \in EventTypes} \cup {<<a, b>> : a, b \in EventTypes}

\* ------------------------------------------------------- POST /api/events/batch
\* An event of a request body has streamName, eventType and payload, or
\* lacks one of them.
ValidEvent(event) == {"streamName", "eventType", "payload"} \subseteq DOMAIN event

\* The checks of the route before it publishes.
ValidBody(body) ==
  /\ body.isArray
  /\ body.events # <<>>
  /\ \A i \in 1..Len(body.events) : ValidEvent(body.events[i])

\* The events before the first one that lacks a field.
RECURSIVE ValidPrefix(_)
ValidPrefix(evs) ==
  IF evs = <<>> \/ ~ValidEvent(Head(evs)) THEN <<>>
  ELSE <<Head(evs)>> \o ValidPrefix(Tail(evs))

EventTypesOf(evs) == [i \in 1..Len(evs) |-> evs[i].eventType]

\* Faulty variant: a route that checks each event when it is about to
\* publish it.
PostBatchLazy(body) ==
  /\ api.req.pc = "done"
  /\ client.reply.status # "pending"
  /\ Settled(client.cmds)
  /\ StreamLen(USER_EVENTS) + Len(body.events) <= MaxLog
  /\ LET req == [NoRequest EXCEPT !.kind = "batch", !.body = body,
                                   !.before = StreamLen(USER_EVENTS)]
     IN  IF ValidBody(body)
         THEN /\ client' = Calls("batchPublish", EventTypesOf(body.events))
              /\ api' = [api EXCEPT !.req = [req EXCEPT !.pc = "batch"]]
         ELSE /\ client' = IF body.isArray /\ ValidPrefix(body.events) # <<>>
                            THEN Calls("batchPublish", EventTypesOf(ValidPrefix(body.events)))
                            ELSE client
              /\ api' = [api EXCEPT !.req = [req EXCEPT !.status = 400]]
  /\ UNCHANGED <<storeVars, workers, events, handled, failed, faults, consumer, stoppedAt, extra,
                 monitor>>

\* POST /batch: 400 when events is not an array, is empty, or holds an event
\* that lacks a field; else ProducerService.batchPublish(events) is called.
PostBatch(body) ==
  /\ api.req.pc = "done"
  /\ client.reply.status # "pending"
  /\ Settled(client.cmds)
  /\ StreamLen(USER_EVENTS) + Len(body.events) <= MaxLog
  /\ LET req == [NoRequest EXCEPT !.kind = "batch", !.body = body,
                                   !.before = StreamLen(USER_EVENTS)]
     IN  IF ValidBody(body)
         THEN /\ client' = Calls("batchPublish", EventTypesOf(body.events))
              /\ api' = [api EXCEPT !.req = [req EXCEPT !.pc = "batch"]]
         ELSE /\ client' = client
              /\ api' = [api EXCEPT !.req = [req EXCEPT !.status = 400]]
  /\ UNCHANGED <<storeVars, workers, events, handled, failed, faults, consumer, stoppedAt, extra,
                 monitor>>

\* batchPublish returns and the route responds 201, or it throws and the
\* catch block responds 500.
BatchRespond ==
  /\ api.req.pc = "batch"
  /\ client.reply.status # "pending"
  /\ api' = [api EXCEPT !.req.pc = "done",
                        !.req.status = IF client.reply.status = "returned" THEN 201 ELSE 500]
  /\ UNCHANGED <<storeVars, workers, events, handled, failed, faults, consumer, stoppedAt, client,
                 extra, monitor>>

\* The request bodies: events that is no array, empty, one or two events,
\* valid ones and ones that lack payload or eventType.
Event(eventType) == [streamName |-> USER_EVENTS, eventType |-> eventType, payload |-> "payload"]
NoPayload == [streamName |-> USER_EVENTS, eventType |-> "user.created"]
NoEventType == [streamName |-> USER_EVENTS, payload |-> "payload"]
Bodies ==
  {[isArray |-> FALSE, events |-> <<>>], [isArray |-> TRUE, events |-> <<>>]}
  \cup {[isArray |-> TRUE, events |-> es] :
          es \in {<<Event("user.created")>>, <<NoPayload>>,
                  <<Event("user.created"), Event("custom.event")>>,
                  <<Event("user.created"), NoPayload>>,
                  <<NoEventType, Event("user.created")>>}}

\* The batch route over a steady connection.
BatchNext ==
  \/ Tick
  \/ \E body \in Bodies : PostBatch(body)
  \/ \E up \in BOOLEAN : Execute(up)
  \/ Receive
  \/ BatchRespond

BatchSpec == Init /\ [][BatchNext]_vars

\* A producer that publishes over a connection that may be lost.
ClientNext ==
  \/ Tick
  \/ \E eventType \in EventTypes : Request("publish", <<eventType>>)
  \/ \E eventTypes \in Batches : Request("batchPublish", eventTypes)
  \/ \E up \in BOOLEAN : Execute(up)
  \/ Receive
  \/ Disconnect
  \/ Reconnect

ClientSpec == Init /\ [][ClientNext]_vars

\* Workers that are started and never stopped.
RunNext ==
  \/ Publish
  \/ \E w \in Workers, s \in StreamNames, startId \in StartIds, up \in BOOLEAN :
       InitializeGroup(w, s, startId, up)
  \/ \E w \in Workers, s \in StreamNames, batchSize \in BatchSizes :
       StartConsuming(w, s, batchSize, 1000)
  \/ \E w \in Workers : WorkerStep(w)

\* Workers that may be stopped or killed at any point.
WorkerNext ==
  \/ RunNext
  \/ \E w \in Workers : Stop(w)
  \/ \E w \in Workers : Kill(w)

WorkerSpec == Init /\ [][WorkerNext]_vars

\* Instances that are started and stopped through their methods only.
LifecycleNext ==
  \/ RunNext
  \/ \E w \in Workers : Stop(w)

LifecycleSpec == Init /\ [][LifecycleNext]_vars

\* One ConsumerGroupService and one ConsumerService on the same stream, as
\* the two scripts start them, each stopped and started again through its
\* methods.
PollPublish ==
  /\ StreamLen(USER_EVENTS) < MaxPollLog
  /\ \E up \in BOOLEAN : AddToStream("p1", USER_EVENTS, "user.created", AUTO_ID, up)

PollNext ==
  \/ PollPublish
  \/ \E up \in BOOLEAN : InitializeGroup("w1", USER_EVENTS, ZeroId, up)
  \/ StartConsuming("w1", USER_EVENTS, 1, 1000)
  \/ WorkerStep("w1")
  \/ Stop("w1")
  \/ ConsumerStartConsuming(ZeroId, 5)
  \/ ConsumerStep
  \/ ConsumerStop

PollSpec == Init /\ [][PollNext]_vars

\* Workers that are stopped while their read is blocked.
WaitNext ==
  \/ RunNext
  \/ \E w \in Workers : StopBlocked(w)

WaitSpec == Init /\ [][WaitNext]_vars

\* One worker, and a producer that publishes events of any type
\* (publishCustomEvent), with and without a case in handleEvent.
PublishCustomEvent ==
  /\ StreamLen(USER_EVENTS) < MaxWorkLog
  /\ \E eventType \in EventTypes, up \in BOOLEAN :
       AddToStream("p1", USER_EVENTS, eventType, AUTO_ID, up)

CustomEventNext ==
  \/ PublishCustomEvent
  \/ \E startId \in StartIds, up \in BOOLEAN : InitializeGroup("w1", USER_EVENTS, startId, up)
  \/ \E batchSize \in BatchSizes : StartConsuming("w1", USER_EVENTS, batchSize, 1000)
  \/ WorkerStep("w1")

CustomEventSpec == Init /\ [][CustomEventNext]_vars

\* The event loop runs every continuation: each step of a started worker
\* that stays possible is taken.
FairRunSpec == Init /\ [][RunNext]_vars /\ \A w \in Workers : WF_vars(WorkerStep(w))

\* The polling loops of an instance that have not exited.
ActiveLoops(w) ==
  (IF workers[w].pc \in {"idle", "done"} THEN 0 ELSE 1) + extra[w].read + extra[w].sleep

\* startConsuming(USER_EVENTS) with the default batch size and block time on
\* an instance whose loop has not exited: sets isRunning and enters a while
\* loop of its own, which issues its first read.
StartConsumingAgain(w) ==
  /\ workers[w].pc \notin {"idle", "done"}
  /\ extra[w].read + extra[w].sleep < MaxLoops
  /\ workers' = [workers EXCEPT ![w].isRunning = TRUE]
  /\ extra' = [extra EXCEPT ![w].read = @ + 1]
  /\ UNCHANGED <<storeVars, events, handled, failed, faults, consumer, client, api, monitor, stoppedAt>>

\* The read of a further loop on a stream without undelivered entries
\* returns empty after the block time (the loop reads again, or exits when
\* isRunning is false), or throws (the catch block sleeps).
ExtraReadReturn(w, up) ==
  /\ extra[w].read > 0
  /\ Faulty(up)
  /\ LET r == readFromConsumerGroup(store, USER_EVENTS, groupName(w), consumerName(w), 1, up)
     IN  /\ r.threw \/ r.val = <<>>
         /\ extra' = IF r.threw
                     THEN [extra EXCEPT ![w].read = @ - 1, ![w].sleep = @ + 1]
                     ELSE IF workers[w].isRunning THEN extra
                     ELSE [extra EXCEPT ![w].read = @ - 1]
  /\ UNCHANGED <<storeVars, workers, events, handled, failed, consumer, client, api, monitor, stoppedAt>>

\* await this.sleep(1000) of a further loop ends.
ExtraSleepReturn(w) ==
  /\ extra[w].sleep > 0
  /\ extra' = IF workers[w].isRunning
              THEN [extra EXCEPT ![w].sleep = @ - 1, ![w].read = @ + 1]
              ELSE [extra EXCEPT ![w].sleep = @ - 1]
  /\ UNCHANGED <<storeVars, workers, events, handled, failed, faults, consumer, client, api, monitor, stoppedAt>>

\* Instances whose startConsuming and stop are called in any order, on a
\* stream that holds no entry: the steps of a loop are the returns of its
\* reads and of its sleeps.
LoopsNext ==
  \/ \E w \in Workers, startId \in StartIds, up \in BOOLEAN :
       InitializeGroup(w, USER_EVENTS, startId, up)
  \/ \E w \in Workers : StartConsuming(w, USER_EVENTS, 1, 1000)
  \/ \E w \in Workers : StartConsumingAgain(w)
  \/ \E w \in Workers, up \in BOOLEAN : ReadReturn(w, up)
  \/ \E w \in Workers : SleepReturn(w)
  \/ \E w \in Workers, up \in BOOLEAN : ExtraReadReturn(w, up)
  \/ \E w \in Workers : ExtraSleepReturn(w)
  \/ \E w \in Workers : Stop(w)

LoopsSpec == Init /\ [][LoopsNext]_vars

\* ------------------------------------------- ConsumerService, several streams
CHAT_MESSAGES == "chat:messages"

\* The arguments of a command after STREAMS: a stream name or an id.  An
\* argument parses as an id when it has the form of one, which no stream
\* name of STREAMS has.
NameArg(s) == [name |-> s]
IdArg(id) == [id |-> id]
ParsesAsId(arg) == "id" \in DOMAIN arg

\* existingStreams.flatMap(s => [s.name, s.id])
streamArgs(existing) ==
  [i \in 1..(2 * Len(existing)) |->
     IF i % 2 = 1 THEN NameArg(existing[(i + 1) \div 2].name) ELSE IdArg(existing[i \div 2].id)]

\* XREAD COUNT count STREAMS args: the first half of args are the keys, the
\* second half their ids.  An id that does not parse is an error; a key that
\* holds no stream, or no entry after its id, is left out of the reply.
XreadStreams(st, count, args) ==
  LET n == Len(args) \div 2
      keys == SubSeq(args, 1, n)
      ids == SubSeq(args, n + 1, 2 * n)
      Got(i) ==
        IF "name" \in DOMAIN keys[i] /\ Exists(st, keys[i].name)
        THEN LET s == keys[i].name
                 from == IF ids[i].id = DOLLAR THEN st[s].lastId ELSE ids[i].id
                 avail == EntriesAfter(st[s].entries, from)
             IN  [stream |-> s, messages |-> SubSeq(avail, 1, Min(count, Len(avail)))]
        ELSE [stream |-> "", messages |-> <<>>]
  IN  IF \E i \in 1..n : ~ParsesAsId(ids[i])
      THEN Err("ERR Invalid stream ID specified as stream command argument")
      ELSE Ok(SelectSeq([i \in 1..n |-> Got(i)], LAMBDA g : g.messages # <<>>))

\* readFromStreams(streams, count): the streams whose XLEN is above 0 are
\* read with one XREAD; the XLEN calls and the XREAD are taken as one step.
readFromStreams(st, streams, count, up) ==
  LET existingStreams ==
        SelectSeq(streams, LAMBDA s : Exists(st, s.name) /\ Len(st[s.name].entries) > 0)
  IN  IF ~up THEN Threw(st)
      ELSE IF existingStreams = <<>> THEN Returned(st, <<>>)
      ELSE LET reply == XreadStreams(st, count, streamArgs(existingStreams))
           IN  IF reply.ok THEN Returned(st, reply.val) ELSE Threw(st)

\* The messages of a reply in the order the two for loops visit them, each
\* with its stream.
RECURSIVE Messages(_)
Messages(reply) ==
  IF reply = <<>> THEN <<>>
  ELSE [i \in 1..Len(Head(reply).messages) |->
          [stream |-> Head(reply).stream, id |-> Head(reply).messages[i].id,
           eventType |-> Head(reply).messages[i].eventType]]
       \o Messages(Tail(reply))

\* startConsumingMultiple(streams, batchSize, pollInterval) on an instance
\* that has no loop running, for user:events and chat:messages from '0'.
MultiStartConsuming(batchSize) ==
  /\ consumer.pc \in {"idle", "done"}
  /\ consumer' = [consumer EXCEPT !.isRunning = TRUE, !.pc = "read", !.batchSize = batchSize,
                                  !.batch = <<>>,
                                  !.streams = <<[name |-> USER_EVENTS, id |-> ZeroId],
                                                [name |-> CHAT_MESSAGES, id |-> ZeroId]>>]
  /\ UNCHANGED <<storeVars, workers, client, extra, api, monitor, events, handled, failed, faults, stoppedAt>>

\* readFromStreams returns: with messages (processMessage starts for the
\* first that is not processed), with none (sleep), or it throws (the catch
\* block sleeps).
MultiReadReturn(up) ==
  /\ consumer.pc = "read"
  /\ Faulty(up)
  /\ LET r == readFromStreams(store, consumer.streams, consumer.batchSize, up)
         todo == Unprocessed(Messages(r.val), consumer.processedMessages)
     IN  consumer' = IF r.threw \/ r.val = <<>> THEN [consumer EXCEPT !.pc = "sleep"]
                     ELSE IF todo # <<>> THEN [consumer EXCEPT !.batch = todo, !.pc = "save"]
                     ELSE [consumer EXCEPT !.pc = ConsumerContinue]
  /\ UNCHANGED <<storeVars, workers, client, extra, api, monitor, events, handled, failed, stoppedAt>>

\* saveEventToDatabase of processMessage(stream, messageId, fields) returns
\* or throws.
MultiSaveReturn(ok) ==
  /\ consumer.pc = "save"
  /\ Faulty(ok)
  /\ LET m == Head(consumer.batch)
         k == <<m.stream, CONSUMER_ID, m.id>>
     IN  IF ok
         THEN /\ events' = EventCreate(events, m.id, m.eventType, <<"", CONSUMER_ID>>)
              /\ handled' = Put(handled, k, IF k \in DOMAIN handled THEN handled[k] + 1 ELSE 1)
              /\ consumer' = [consumer EXCEPT !.pc = "mark"]
              /\ UNCHANGED failed
         ELSE /\ failed' = failed \cup {k}
              /\ consumer' = [consumer EXCEPT !.pc = "error"]
              /\ UNCHANGED <<events, handled>>
  /\ UNCHANGED <<storeVars, workers, client, extra, api, monitor, stoppedAt>>

\* processMessage has returned: this.processedMessages.add(messageId) and
\* streams[streamIndex].id = messageId for the stream of the message.
MultiProcessed ==
  LET m == Head(consumer.batch)
      done == consumer.processedMessages \cup {m.id}
      rest == Unprocessed(Tail(consumer.batch), done)
  IN  [consumer EXCEPT !.processedMessages = done,
                       !.streams = [i \in 1..Len(@) |->
                                      IF @[i].name = m.stream THEN [@[i] EXCEPT !.id = m.id]
                                      ELSE @[i]],
                       !.batch = rest,
                       !.pc = IF rest # <<>> THEN "save" ELSE ConsumerContinue]

MultiMarkReturn(ok) ==
  /\ consumer.pc = "mark"
  /\ Faulty(ok)
  /\ events' = markEventAsProcessed(events, Head(consumer.batch).id, ok)
  /\ consumer' = MultiProcessed
  /\ UNCHANGED <<storeVars, workers, client, extra, api, monitor, handled, failed, stoppedAt>>

MultiErrorReturn(ok) ==
  /\ consumer.pc = "error"
  /\ Faulty(ok)
  /\ events' = handleProcessingError(events, Head(consumer.batch).id, ok)
  /\ consumer' = MultiProcessed
  /\ UNCHANGED <<storeVars, workers, client, extra, api, monitor, handled, failed, stoppedAt>>

\* The steps the event loop takes for a started startConsumingMultiple.
MultiStep ==
  \/ \E up \in BOOLEAN : MultiReadReturn(up)
  \/ ConsumerSleepReturn
  \/ \E ok \in BOOLEAN : MultiSaveReturn(ok)
  \/ \E ok \in BOOLEAN : MultiMarkReturn(ok)
  \/ \E ok \in BOOLEAN : MultiErrorReturn(ok)

\* A producer publishes to one of the two streams.
MultiPublish(s) ==
  /\ StreamLen(s) < MaxMultiLog
  /\ \E up \in BOOLEAN : AddToStream("p1", s, "user.created", AUTO_ID, up)

MultiStreams == {USER_EVENTS, CHAT_MESSAGES}

\* A ConsumerService reading two streams, never stopped, while a producer
\* publishes to both; the event loop runs every continuation.
MultiNext ==
  \/ \E s \in MultiStreams : MultiPublish(s)
  \/ \E batchSize \in ConsumerBatchSizes : MultiStartConsuming(batchSize)
  \/ MultiStep

FairMultiSpec == Init /\ [][MultiNext]_vars /\ WF_vars(MultiStep)

\* ------------------------------------------------------------- routes/users
\* The ids User.create gives its rows.
UserIds == {1, 2}

\* POST /api/users: 400 without username or email, else User.create is
\* called.
PostUsers(valid) ==
  /\ api.req.pc = "done"
  /\ StreamLen(USER_EVENTS) < MaxWorkLog
  /\ api' = [api EXCEPT !.req = IF valid THEN [NoRequest EXCEPT !.kind = "post", !.pc = "create"]
                                 ELSE [NoRequest EXCEPT !.kind = "post", !.status = 400]]
  /\ UNCHANGED <<storeVars, workers, events, handled, failed, faults, consumer, stoppedAt, client,
                 extra, monitor>>

\* User.create returns the new row and publishUserCreated is called, or it
\* throws and the catch block responds 500.
UserCreateReturn(u, ok) ==
  /\ api.req.pc = "create"
  /\ u \notin api.users
  /\ Faulty(ok)
  /\ api' = IF ok THEN [api EXCEPT !.users = @ \cup {u}, !.req.user = u, !.req.dbChanged = TRUE,
                                    !.req.pc = "publish"]
             ELSE [api EXCEPT !.req.pc = "done", !.req.status = 500]
  /\ UNCHANGED <<storeVars, workers, events, handled, failed, consumer, stoppedAt, client, extra,
                 monitor>>

\* DELETE /api/users/:id: 404 when findByPk finds no row, else user.destroy
\* is called.
DeleteUser(u) ==
  /\ api.req.pc = "done"
  /\ StreamLen(USER_EVENTS) < MaxWorkLog
  /\ api' = [api EXCEPT !.req = IF u \in api.users
                                 THEN [NoRequest EXCEPT !.kind = "delete", !.user = u, !.pc = "destroy"]
                                 ELSE [NoRequest EXCEPT !.kind = "delete", !.user = u, !.status = 404]]
  /\ UNCHANGED <<storeVars, workers, events, handled, failed, faults, consumer, stoppedAt, client,
                 extra, monitor>>

\* user.destroy returns and publishUserDeleted is called, or it throws and
\* the catch block responds 500.
UserDestroyReturn(ok) ==
  /\ api.req.pc = "destroy"
  /\ Faulty(ok)
  /\ api' = IF ok THEN [api EXCEPT !.users = @ \ {api.req.user}, !.req.dbChanged = TRUE,
                                    !.req.pc = "publish"]
             ELSE [api EXCEPT !.req.pc = "done", !.req.status = 500]
  /\ UNCHANGED <<storeVars, workers, events, handled, failed, consumer, stoppedAt, client, extra,
                 monitor>>

\* publishUserCreated / publishUserDeleted (return await addToStream(...))
\* returns the id and the route responds 201 / 200, or it throws and the
\* catch block responds 500.
UserPublishReturn(up) ==
  /\ api.req.pc = "publish"
  /\ Faulty(up)
  /\ LET eventType == IF api.req.kind = "post" THEN "user.created" ELSE "user.deleted"
         r == addToStream(store, USER_EVENTS, eventType, AUTO_ID, now, up)
     IN  /\ store' = r.st
         /\ appended' = IF r.threw THEN appended ELSE [appended EXCEPT !["p1"] = @ + 1]
         /\ api' = IF r.threw THEN [api EXCEPT !.req.pc = "done", !.req.status = 500]
                    ELSE [api EXCEPT !.req.pc = "done", !.req.appended = TRUE,
                                     !.req.status = IF api.req.kind = "post" THEN 201 ELSE 200]
  /\ UNCHANGED <<now, delivered, acked, groupStart, workers, events, handled, failed, consumer,
                 stoppedAt, client, extra, monitor>>

\* The users routes serving one request after the other.
UsersNext ==
  \/ Tick
  \/ \E valid \in BOOLEAN : PostUsers(valid)
  \/ \E u \in UserIds, ok \in BOOLEAN : UserCreateReturn(u, ok)
  \/ \E u \in UserIds : DeleteUser(u)
  \/ \E ok \in BOOLEAN : UserDestroyReturn(ok)
  \/ \E up \in BOOLEAN : UserPublishReturn(up)

UsersSpec == Init /\ [][UsersNext]_vars

\* ------------------------------------------------- StreamInspector.monitorStream
\* The id an XREAD waits above: '$' is the top id of the stream at the
\* moment the command reaches the store.
ResolveId(st, s, id) ==
  IF id = DOLLAR THEN (IF Exists(st, s) THEN st[s].lastId ELSE ZeroId) ELSE id

\* monitorStream(USER_EVENTS) is called: lastId = '$' and the first
\* redis.xread('BLOCK', 1000, 'STREAMS', streamName, lastId) reaches the store.
MonitorStream ==
  /\ monitor.pc = "idle"
  /\ monitor' = [pc |-> "read", lastId |-> DOLLAR,
                 from |-> ResolveId(store, USER_EVENTS, DOLLAR),
                 reported |-> <<>>, since |-> StreamLen(USER_EVENTS)]
  /\ UNCHANGED <<storeVars, workers, events, handled, failed, faults, consumer, stoppedAt, client,
                 extra, api>>

\* The XREAD of the next turn of the loop reaches the store.
MonitorIssue ==
  /\ monitor.pc = "call"
  /\ monitor' = [monitor EXCEPT !.pc = "read",
                                !.from = ResolveId(store, USER_EVENTS, monitor.lastId)]
  /\ UNCHANGED <<storeVars, workers, events, handled, failed, faults, consumer, stoppedAt, client,
                 extra, api>>

\* The XREAD returns: the entries above the id it waits for (each is logged
\* and lastId moves to it), null when the block time has passed without
\* one, or an error (the catch block sleeps).
MonitorReadReturn(up) ==
  /\ monitor.pc = "read"
  /\ Faulty(up)
  /\ LET got == EntriesAfter(EntriesOf(store, USER_EVENTS), monitor.from)
     IN  monitor' = IF ~up THEN [monitor EXCEPT !.pc = "sleep"]
                    ELSE IF got = <<>> THEN [monitor EXCEPT !.pc = "call"]
                    ELSE [monitor EXCEPT !.pc = "call", !.lastId = got[Len(got)].id,
                                         !.reported = @ \o [i \in 1..Len(got) |-> got[i].id]]
  /\ UNCHANGED <<storeVars, workers, events, handled, failed, consumer, stoppedAt, client, extra,
                 api>>

\* await this.sleep(1000) of the catch block ends.
MonitorSleepReturn ==
  /\ monitor.pc = "sleep"
  /\ monitor' = [monitor EXCEPT !.pc = "call"]
  /\ UNCHANGED <<storeVars, workers, events, handled, failed, faults, consumer, stoppedAt, client,
                 extra, api>>

\* Date.now() - startTime has reached duration: the loop ends.
MonitorStop ==
  /\ monitor.pc = "call"
  /\ monitor' = [monitor EXCEPT !.pc = "done"]
  /\ UNCHANGED <<storeVars, workers, events, handled, failed, faults, consumer, stoppedAt, client,
                 extra, api>>

\* The inspector monitoring user:events while a producer publishes.
MonitorNext ==
  \/ Tick
  \/ Publish
  \/ MonitorStream
  \/ MonitorIssue
  \/ \E up \in BOOLEAN : MonitorReadReturn(up)
  \/ MonitorSleepReturn
  \/ MonitorStop

MonitorSpec == Init /\ [][MonitorNext]_vars

\* A ConsumerService that is started and never stopped while a producer
\* publishes; the event loop runs every continuation.
ConsumerRunNext ==
  \/ Publish
  \/ \E startId \in StartIds, batchSize \in ConsumerBatchSizes :
       ConsumerStartConsuming(startId, batchSize)
  \/ ConsumerStep

FairConsumerSpec == Init /\ [][ConsumerRunNext]_vars /\ WF_vars(ConsumerStep)

\* One ConsumerGroupService started with either block time, stopped and
\* started again through its methods; the event loop runs every continuation.
BlockingNext ==
  \/ Publish
  \/ \E startId \in StartIds, up \in BOOLEAN : InitializeGroup("w1", USER_EVENTS, startId, up)
  \/ \E batchSize \in BatchSizes, blockTime \in BlockTimes :
       StartConsuming("w1", USER_EVENTS, batchSize, blockTime)
  \/ WorkerStep("w1")
  \/ Stop("w1")

FairBlockingSpec == Init /\ [][BlockingNext]_vars /\ WF_vars(WorkerStep("w1"))

\* Producers: any number of callers of addToStream on the same stream.
ProducerNext ==
  \/ Tick
  \/ \E p \in Producers, s \in StreamNames, eventType \in EventTypes, idArg \in IdArgs,
        up \in BOOLEAN :
       AddToStream(p, s, eventType, idArg, up)

ProducerSpec == Init /\ [][ProducerNext]_vars

\* One group with competing consumers.
GroupNext == Tick \/ Produce \/ GroupCalls({"g1"}, ConsumerNames)

GroupSpec == Init /\ [][GroupNext]_vars

\* Two groups on the same stream.
TwoGroupsNext == Tick \/ Produce \/ GroupCalls(GroupNames, {"c1"})

TwoGroupsSpec == Init /\ [][TwoGroupsNext]_vars

\* ==================================================================== claims
PendingOf(s, g) == IF HasGroup(store, s, g) THEN store[s].groups[g].pel ELSE {}
PendingIds(s, g) == {p.id : p \in PendingOf(s, g)}
DeliveredIds(s, g) == {delivered[Key(s, g)][i].id : i \in 1..Len(delivered[Key(s, g)])}

\* C1: the entries handed out by the readFromConsumerGroup calls of a group
\* never repeat an id (two calls return disjoint sets), and every pending id
\* is held by exactly one consumer, the one it was handed to.
C1_ExclusiveClaim ==
  \A s \in StreamNames, g \in GroupNames :
    LET d == delivered[Key(s, g)]
    IN  /\ \A i, j \in 1..Len(d) : i # j => d[i].id # d[j].id
        /\ \A id \in PendingIds(s, g) :
             Cardinality({p.consumer : p \in {q \in PendingOf(s, g) : q.id = id}}) = 1
        /\ \A p \in PendingOf(s, g) :
             \E i \in 1..Len(d) : d[i].id = p.id /\ d[i].consumer = p.consumer

\* Two consumers of one group each hold a pending entry.
C1_Witness ==
  \E s \in StreamNames, g \in GroupNames :
    \E p, q \in PendingOf(s, g) : p.consumer = "c1" /\ q.consumer = "c2"

\* C5: in every state, for every group and id, a second acknowledgeMessage
\* of the same id leaves the store as the first one left it, and neither
\* call throws.
C5_AckIdempotent ==
  \A s \in StreamNames, g \in GroupNames :
    \A id \in AckIds(s) :
      LET first == acknowledgeMessage(store, s, g, id, TRUE)
          second == acknowledgeMessage(first.st, s, g, id, TRUE)
      IN  ~first.threw /\ ~second.threw /\ second.st = first.st

\* An id has been acknowledged while the group still has a pending entry.
C5_Witness ==
  \E k \in acked : PendingOf(k[1], k[2]) # {}

\* C6: an acknowledgeMessage call does not throw; for an id that is not
\* pending it changes nothing, for a pending id it removes that id from the
\* pending entries and changes nothing else.
C6_AckFrame ==
  [][\A s \in StreamNames, g \in GroupNames :
       \A id \in AckIds(s) :
         AcknowledgeMessage(s, g, id, TRUE) =>
           /\ ~acknowledgeMessage(store, s, g, id, TRUE).threw
           /\ id \notin PendingIds(s, g) => store' = store /\ acked' = acked
           /\ id \in PendingIds(s, g) =>
                /\ PendingOf(s, g)' = {p \in PendingOf(s, g) : p.id # id}
                /\ store'[s].entries = store[s].entries
                /\ store'[s].lastId = store[s].lastId
                /\ store'[s].groups[g].lastDeliveredId = store[s].groups[g].lastDeliveredId
                /\ \A g2 \in DOMAIN store[s].groups \ {g} : store'[s].groups[g2] = store[s].groups[g2]
    ]_vars

\* An id has been acknowledged while an older entry is still pending.
C6_Witness ==
  \E k \in acked : \E p \in PendingOf(k[1], k[2]) : IdLT(p.id, k[3])

\* What the group covers: the entries after the id it was created with.
Covered(s, g) == EntriesAfter(store[s].entries, groupStart[Key(s, g)])

\* C7 (order): the entries handed out in a group are, in order, the first
\* entries of the stream after the group's start id: ascending, no gap.
C7_Prefix ==
  \A s \in StreamNames, g \in GroupNames :
    HasGroup(store, s, g) =>
      LET d == delivered[Key(s, g)]
      IN  /\ Len(d) <= Len(Covered(s, g))
          /\ \A i \in 1..Len(d) : d[i].id = Covered(s, g)[i].id
          /\ \A i \in 1..(Len(d) - 1) : IdLT(d[i].id, d[i + 1].id)

\* C7 (scenario A): with 3 entries and the group created at "0", the first
\* read, with count 10 and block time 0, returns the 3 entries in order.
C7_ScenarioA ==
  \A s \in StreamNames, g \in GroupNames, c \in ConsumerNames :
    ( /\ ReadFromConsumerGroup(s, g, c, 10, 0, TRUE)
      /\ HasGroup(store, s, g)
      /\ groupStart[Key(s, g)] = ZeroId
      /\ delivered[Key(s, g)] = <<>>
      /\ Len(store[s].entries) = 3 )
    => delivered'[Key(s, g)] = Handed(c, store[s].entries)

\* C7: ordered claiming.
C7_OrderedClaiming == []C7_Prefix /\ [][C7_ScenarioA]_vars

\* A group created at "0" has handed out 3 entries.
C7_Witness ==
  \E s \in StreamNames, g \in GroupNames :
    /\ HasGroup(store, s, g)
    /\ groupStart[Key(s, g)] = ZeroId
    /\ Len(delivered[Key(s, g)]) = 3

\* The entries a step adds to what a group has handed out.
NewlyDelivered(s, g) ==
  SubSeq(delivered'[Key(s, g)], Len(delivered[Key(s, g)]) + 1, Len(delivered'[Key(s, g)]))

\* C8: a read never returns an entry that is pending for a consumer; it
\* returns only entries after the group's last delivered id.
C8_NoSteal ==
  [][\A s \in StreamNames, g \in GroupNames :
       Len(delivered'[Key(s, g)]) > Len(delivered[Key(s, g)]) =>
         \A i \in 1..Len(NewlyDelivered(s, g)) :
           /\ NewlyDelivered(s, g)[i].id \notin PendingIds(s, g)
           /\ IdLT(store[s].groups[g].lastDeliveredId, NewlyDelivered(s, g)[i].id)
    ]_vars

\* c1 holds a pending entry and c2 has been handed a later one.
C8_Witness ==
  \E s \in StreamNames, g \in GroupNames :
    \E p \in PendingOf(s, g) :
      /\ p.consumer = "c1"
      /\ \E i \in 1..Len(delivered[Key(s, g)]) :
           /\ delivered[Key(s, g)][i].consumer = "c2"
           /\ IdLT(p.id, delivered[Key(s, g)][i].id)

RECURSIVE Sum(_, _)
Sum(f, S) == IF S = {} THEN 0 ELSE LET x == CHOOSE y \in S : TRUE IN f[x] + Sum(f, S \ {x})

C10_GroupIndependence ==
  [][\A s \in StreamNames, g \in GroupNames :
       (HasGroup(store, s, g) /\ store'[s].groups[g] # store[s].groups[g])
       => \A g2 \in GroupNames \ {g} :
            /\ HasGroup(store, s, g2) => store'[s].groups[g2] = store[s].groups[g2]
            /\ delivered'[Key(s, g2)] = delivered[Key(s, g2)]
    ]_vars

\* The same entry has been handed out in both groups, whose last delivered
\* ids differ, one group holding it pending and the other not.
C10_Witness ==
  \E s \in StreamNames :
    /\ HasGroup(store, s, "g1") /\ HasGroup(store, s, "g2")
    /\ store[s].groups["g1"].lastDeliveredId # store[s].groups["g2"].lastDeliveredId
    /\ \E id \in DeliveredIds(s, "g1") \cap DeliveredIds(s, "g2") :
         id \in PendingIds(s, "g1") /\ id \notin PendingIds(s, "g2")

\* ------------------------------------------------------- claims on workers
\* The id of the i-th entry of the workers' stream.
EntryId(i) == store[USER_EVENTS].entries[i].id
HasEntry(i) == Exists(store, USER_EVENTS) /\ i <= Len(store[USER_EVENTS].entries)

\* C3: an entry handed to a worker and not acknowledged is pending, whatever
\* the workers did since (a failed call, stop(), the process killed).
C3_NoSilentDrop ==
  \A s \in StreamNames, g \in GroupNames :
    \A id \in DeliveredIds(s, g) :
      <<s, g, id>> \notin acked => id \in PendingIds(s, g)

\* An entry is pending for c1, whose process was killed while handling it.
C3_Witness ==
  /\ workers["w1"].pc = "idle"
  /\ \E p \in PendingOf(USER_EVENTS, "g1") :
       p.consumer = "c1" /\ <<USER_EVENTS, "g1", p.id>> \in DOMAIN handled

\* The i-th entry was handed to a worker whose processMessage threw, and is
\* still pending.
FailedPending(i) ==
  /\ HasEntry(i)
  /\ <<USER_EVENTS, "g1", EntryId(i)>> \in failed
  /\ EntryId(i) \in PendingIds(USER_EVENTS, "g1")

\* The i-th entry has been handed out more than once in the group.
Redelivered(i) ==
  /\ HasEntry(i)
  /\ Cardinality({j \in 1..Len(delivered[Key(USER_EVENTS, "g1")]) :
                    delivered[Key(USER_EVENTS, "g1")][j].id = EntryId(i)}) >= 2

\* C2: an entry whose processing threw, left unacknowledged, is eventually
\* handed out again in the group.
C2_Redelivery ==
  \A i \in 1..MaxWorkLog : [](FailedPending(i) => <>Redelivered(i))

\* The i-th entry is one the group covers, and a worker of the group runs.
AwaitsHandling(i) ==
  /\ HasEntry(i)
  /\ HasGroup(store, USER_EVENTS, "g1")
  /\ IdLT(groupStart[Key(USER_EVENTS, "g1")], EntryId(i))
  /\ \E w \in Workers : workers[w].pc # "idle" /\ workers[w].isRunning

HandlerCalled(i) == HasEntry(i) /\ <<USER_EVENTS, "g1", EntryId(i)>> \in DOMAIN handled

\* C4: for every entry of a stream whose group has a running worker,
\* handleEvent is eventually called.
C4_AtLeastOnce ==
  \A i \in 1..MaxWorkLog : [](AwaitsHandling(i) => <>HandlerCalled(i))

C12_Create ==
  \A s \in StreamNames, g \in GroupNames :
    ~HasGroup(store, s, g) =>
      /\ CreateConsumerGroup(s, g, ZeroId, TRUE) =>
           /\ readFromConsumerGroup(store', s, g, "c1", 10, TRUE).val = EntriesOf(store, s)
           /\ groupStart'[Key(s, g)] = ZeroId
      /\ CreateConsumerGroup(s, g, DOLLAR, TRUE) =>
           /\ readFromConsumerGroup(store', s, g, "c1", 10, TRUE).val = <<>>
           /\ \A id \in Ids(EntriesOf(store, s)) : IdLE(id, groupStart'[Key(s, g)])

\* C12 (afterwards): no entry up to the id a group started at is ever handed
\* out in it; in a group that started at "0" every entry of the stream has
\* been handed out or is returned by the next read.
C12_After ==
  \A s \in StreamNames, g \in GroupNames :
    HasGroup(store, s, g) =>
      /\ \A id \in DeliveredIds(s, g) : IdLT(groupStart[Key(s, g)], id)
      /\ groupStart[Key(s, g)] = ZeroId =>
           \A id \in Ids(store[s].entries) :
             \/ id \in DeliveredIds(s, g)
             \/ id \in Ids(readFromConsumerGroup(store, s, g, "c1", 10, TRUE).val)

\* C12: group start position.
C12_StartPosition == []C12_After /\ [][C12_Create]_vars

\* Of two groups on a stream, the one created at "0" has been handed the
\* entry that existed when the other was created at '$', and the other only
\* a later one.
C12_Witness ==
  \E s \in StreamNames :
    /\ HasGroup(store, s, "g1") /\ HasGroup(store, s, "g2")
    /\ groupStart[Key(s, "g1")] = ZeroId
    /\ groupStart[Key(s, "g2")] # ZeroId
    /\ groupStart[Key(s, "g2")] \in DeliveredIds(s, "g1")
    /\ DeliveredIds(s, "g2") # {}
    /\ DeliveredIds(s, "g2") \subseteq DeliveredIds(s, "g1")

\* ---------------------------------------------------- claims on group state
\* The three delivery states of an entry id in a group.
Undelivered(s, g, id) == IdLT(store[s].groups[g].lastDeliveredId, id)
Pending(s, g, id) == id \in PendingIds(s, g)
Acknowledged(s, g, id) == IdLE(id, store[s].groups[g].lastDeliveredId) /\ ~Pending(s, g, id)

\* Every entry is in exactly one delivery state, and every pending id is at
\* or below the last delivered id.
C13_ExactlyOne ==
  \A s \in StreamNames, g \in GroupNames :
    HasGroup(store, s, g) =>
      /\ \A id \in Ids(store[s].entries) :
           Cardinality({k \in 1..3 : \/ k = 1 /\ Undelivered(s, g, id)
                                     \/ k = 2 /\ Pending(s, g, id)
                                     \/ k = 3 /\ Acknowledged(s, g, id)}) = 1
      /\ \A id \in PendingIds(s, g) : IdLE(id, store[s].groups[g].lastDeliveredId)

\* C13 as stated: delivery-state partition, where every entry at or below
\* the last delivered id that is not pending has been acknowledged by a
\* caller.
C13_PartitionAsStated ==
  /\ C13_ExactlyOne
  /\ \A s \in StreamNames, g \in GroupNames :
       HasGroup(store, s, g) =>
         \A id \in Ids(store[s].entries) :
           Acknowledged(s, g, id) => <<s, g, id>> \in acked

\* C13: delivery-state partition; every entry after the id the group
\* started at, at or below the last delivered id and not pending, has been
\* acknowledged by a caller, and the entries up to the start id have been
\* neither handed out nor acknowledged.
C13_Partition ==
  /\ C13_ExactlyOne
  /\ \A s \in StreamNames, g \in GroupNames :
       HasGroup(store, s, g) =>
         \A id \in Ids(store[s].entries) :
           IF IdLT(groupStart[Key(s, g)], id)
           THEN Acknowledged(s, g, id) => <<s, g, id>> \in acked
           ELSE id \notin DeliveredIds(s, g) /\ <<s, g, id>> \notin acked

\* A group created at '$' on a stream with an entry has since been handed
\* two entries, one acknowledged and one pending.
C13_Witness ==
  \E s \in StreamNames, g \in GroupNames :
    /\ HasGroup(store, s, g)
    /\ groupStart[Key(s, g)] # ZeroId
    /\ \E id \in Ids(store[s].entries) : Acknowledged(s, g, id) /\ <<s, g, id>> \in acked
    /\ PendingOf(s, g) # {}

\* C14: in every state, a readFromConsumerGroup call with count n that
\* returns hands out at most n entries, all with ids above the group's last
\* delivered id; after it each of them is pending for the calling consumer
\* with delivery count 1 and for nobody else, and the last delivered id is
\* the largest id returned, or what it was when nothing is returned.
C14_ClaimEffect ==
  \A s \in StreamNames, g \in GroupNames, c \in ConsumerNames, n \in Counts :
    LET r == readFromConsumerGroup(store, s, g, c, n, TRUE)
        before == store[s].groups[g].lastDeliveredId
        after == r.st[s].groups[g]
    IN  ~r.threw =>
          /\ Len(r.val) <= n
          /\ \A id \in Ids(r.val) : IdLT(before, id)
          /\ \A id \in Ids(r.val) :
               {p \in after.pel : p.id = id} = {[id |-> id, consumer |-> c, deliveryCount |-> 1]}
          /\ r.val = <<>> => after.lastDeliveredId = before
          /\ r.val # <<>> =>
               /\ after.lastDeliveredId \in Ids(r.val)
               /\ \A id \in Ids(r.val) : IdLE(id, after.lastDeliveredId)

\* Of three entries, c1 was handed the first and c2 the second; both are
\* pending with delivery count 1, the last delivered id is the second and
\* the third is still to be handed out.
C14_Witness ==
  \E s \in StreamNames, g \in GroupNames :
    /\ HasGroup(store, s, g)
    /\ Len(store[s].entries) = 3
    /\ delivered[Key(s, g)] = <<[id |-> store[s].entries[1].id, consumer |-> "c1"],
                                [id |-> store[s].entries[2].id, consumer |-> "c2"]>>
    /\ PendingOf(s, g) = {[id |-> store[s].entries[1].id, consumer |-> "c1", deliveryCount |-> 1],
                          [id |-> store[s].entries[2].id, consumer |-> "c2", deliveryCount |-> 1]}
    /\ store[s].groups[g].lastDeliveredId = store[s].entries[2].id

\* ------------------------------------------------ claims on the worker loop
\* The lifecycle states of an instance: startConsuming not called yet; the
\* flag set; the flag cleared by stop().
Idle(w) == workers[w].pc = "idle"
Running(w) == workers[w].pc # "idle" /\ workers[w].isRunning
Stopped(w) == workers[w].pc # "idle" /\ ~workers[w].isRunning

\* C15: an instance moves only Idle -> Running -> Stopped; once it is
\* stopped it stays stopped and issues no further read, whatever
\* startConsuming and stop calls follow.
C15_Lifecycle ==
  [][\A w \in Workers :
       /\ Idle(w) => Idle(w)' \/ Running(w)'
       /\ Running(w) => Running(w)' \/ Stopped(w)'
       /\ Stopped(w) =>
            /\ Stopped(w)'
            /\ workers'[w].pc = "read" => workers'[w] = workers[w]
    ]_vars

\* processMessage is running for the head of the worker's batch.
InProcessMessage(w) == workers[w].pc \in {"save", "handle", "ack", "mark", "error"}

\* C16 (state): an entry whose processMessage threw is not acknowledged: it
\* is still pending.
C16_NotAcknowledged ==
  \A k \in failed : k \notin acked /\ k[3] \in PendingIds(k[1], k[2])

\* C16 (steps): no step of processMessage ends in the catch block of the
\* loop; when the catch block of processMessage is over, processMessage
\* starts for the next entry of the batch, the rest of the batch unchanged,
\* or, the batch being over, the loop issues its next read while the
\* instance is running.
C16_Contained ==
  \A w \in Workers :
    /\ InProcessMessage(w) => workers'[w].pc # "sleep"
    /\ (workers[w].pc = "error" /\ workers'[w].pc # "error") =>
         /\ workers'[w].batch = Tail(workers[w].batch)
         /\ workers'[w].pc = IF Tail(workers[w].batch) # <<>> THEN "save"
                             ELSE IF workers[w].isRunning THEN "read" ELSE "done"

\* C16: per-entry failure containment.
C16_FailureContainment == []C16_NotAcknowledged /\ [][C16_Contained]_vars

\* A worker was handed two entries in one batch; processMessage threw for
\* the first, which is pending, and the handler has been called for the
\* second.
C16_Witness ==
  \E w \in Workers :
    /\ workers[w].pc = "handle"
    /\ Len(delivered[Key(USER_EVENTS, groupName(w))]) = 2
    /\ \A i \in 1..2 : delivered[Key(USER_EVENTS, groupName(w))][i].consumer = consumerName(w)
    /\ Head(workers[w].batch).id = EntryId(2)
    /\ <<USER_EVENTS, groupName(w), EntryId(1)>> \in failed
    /\ EntryId(1) \in PendingIds(USER_EVENTS, groupName(w))

\* C17 (state): a loop that has ended belongs to an instance whose flag
\* stop() has cleared.
C17_EndsOnlyStopped ==
  /\ \A w \in Workers : workers[w].pc = "done" => ~workers[w].isRunning
  /\ consumer.pc = "done" => ~consumer.isRunning

\* C17 (steps): a read that throws puts the loop in its sleep, and when the
\* sleep is over the loop issues the next read, or ends when stop() was
\* called; so for the ConsumerGroupService as for the ConsumerService.
C17_Backoff ==
  /\ \A w \in Workers :
       /\ ReadReturn(w, FALSE) => workers'[w].pc = "sleep"
       /\ (workers[w].pc = "sleep" /\ workers'[w].pc # "sleep") =>
            workers'[w].pc = IF workers[w].isRunning THEN "read" ELSE "done"
  /\ ConsumerReadReturn(FALSE) => consumer'.pc = "sleep"
  /\ (consumer.pc = "sleep" /\ consumer'.pc # "sleep") =>
       consumer'.pc = IF consumer.isRunning THEN "read" ELSE "done"

\* C17: store errors never end a worker.
C17_StoreErrors == []C17_EndsOnlyStopped /\ [][C17_Backoff]_vars

\* The read of the ConsumerGroupService has thrown with entries waiting; the
\* running instance is in the sleep of its catch block.
C17_Witness ==
  /\ workers["w1"].pc = "sleep" /\ workers["w1"].isRunning
  /\ faults = 1
  /\ HasGroup(store, USER_EVENTS, "g1")
  /\ PendingOf(USER_EVENTS, "g1") = {}
  /\ StreamLen(USER_EVENTS) > 0

\* C18: a worker whose stop() was called while its read was blocked is
\* handed no entry that was appended after the call.
C18_CancelledWait ==
  [][\A w \in Workers :
       stoppedAt[w] >= 0 =>
         LET new == NewlyDelivered(workers[w].streamName, groupName(w))
         IN  \A i \in 1..Len(new) :
               new[i].consumer = consumerName(w) =>
                 \E j \in 1..stoppedAt[w] : store[workers[w].streamName].entries[j].id = new[i].id
    ]_vars

\* ------------------------------------------- claims on the ConsumerService
\* C19: the ConsumerService has recorded as processed, and has moved its
\* startId to or past, no entry whose processMessage ran its catch block.
C19_CursorOnSuccess ==
  \A k \in failed :
    k[2] = CONSUMER_ID =>
      /\ k[3] \notin consumer.processedMessages
      /\ consumer.startId # DOLLAR => IdLT(consumer.startId, k[3])

\* ------------------------------------------------- claims on event types
\* The entries of the workers' stream whose type has no case in handleEvent.
UnknownTyped ==
  {i \in 1..StreamLen(USER_EVENTS) : store[USER_EVENTS].entries[i].eventType \notin EVENT_TYPES}

\* A worker is inside processMessage for the entry.
InProgress(id) ==
  \E w \in Workers : InProcessMessage(w) /\ Head(workers[w].batch).id = id

\* C20 (state): an entry of unknown type is handed out at most once; once
\* its processMessage is over without a failed call it is acknowledged, and
\* acknowledged it is not pending.
C20_Acknowledged ==
  \A i \in UnknownTyped :
    LET k == <<USER_EVENTS, "g1", EntryId(i)>>
    IN  /\ Cardinality({j \in 1..Len(delivered[Key(USER_EVENTS, "g1")]) :
                          delivered[Key(USER_EVENTS, "g1")][j].id = EntryId(i)}) <= 1
        /\ (k \in DOMAIN handled /\ k \notin failed /\ ~InProgress(EntryId(i))) => k \in acked
        /\ k \in acked => EntryId(i) \notin PendingIds(USER_EVENTS, "g1")

\* C20 (steps): handleEvent of an entry of unknown type returns to the
\* acknowledgment; it does not run the catch block of processMessage.
C20_NoFailure ==
  \A w \in Workers :
    (workers[w].pc = "handle" /\ Head(workers[w].batch).eventType \notin EVENT_TYPES) =>
      /\ workers'[w].pc \in {"handle", "ack"}
      /\ <<workers[w].streamName, groupName(w), Head(workers[w].batch).id>> \notin failed'

\* C20: unknown event types.
C20_UnknownEventType == []C20_Acknowledged /\ [][C20_NoFailure]_vars

\* An entry of unknown type was handled and acknowledged, no call failed,
\* and the worker has gone on to process the entry after it.
C20_Witness ==
  /\ HasEntry(2)
  /\ 1 \in UnknownTyped
  /\ <<USER_EVENTS, "g1", EntryId(1)>> \in acked
  /\ PendingIds(USER_EVENTS, "g1") = {EntryId(2)}
  /\ faults = 0
  /\ workers["w1"].pc = "ack"

\* C21: a completed batchPublish call in which some appends failed and
\* others succeeded gives its caller one outcome per input event, and every
\* event of the batch that was appended is reported with the id of its entry.
C21_PerEventOutcomes ==
  (/\ client.kind = "batchPublish"
   /\ Settled(client.cmds)
   /\ \E i \in 1..Len(client.cmds) : client.cmds[i].status = "rejected"
   /\ \E i \in 1..Len(client.cmds) : client.cmds[i].status = "resolved") =>
    /\ Len(client.reply.ids) = Len(client.cmds)
    /\ \A i \in 1..Len(client.cmds) :
         client.cmds[i].applied > 0 => client.reply.ids[i] = client.cmds[i].id

\* C22: a publish call that returned an id has appended exactly one entry, a
\* publish call that threw has appended none, and the command of a call was
\* sent to the store once.
C22_AtomicPublish ==
  (client.kind = "publish" /\ client.reply.status # "pending" /\ client.cmds # <<>>) =>
    /\ client.cmds[1].sends = 1
    /\ client.cmds[1].applied = (IF client.reply.status = "returned" THEN 1 ELSE 0)

\* C23: the events table holds at most one row per entry id.
C23_OneRowPerEntry ==
  \A r1, r2 \in events : r1.streamId = r2.streamId => r1 = r2

\* The audit rows of an entry.
RowsOf(id) == {r \in events : r.streamId = id}

\* C24: when the handler of an entry has returned and the acknowledge call
\* then threw, the entry's audit row is marked processed and carries no
\* error once processMessage is over.
C24_AuditIndependentOfAck ==
  \A k \in DOMAIN handled :
    (k \in failed /\ ~InProgress(k[3])) =>
      \A r \in RowsOf(k[3]) : r.processed /\ r.error = ""

\* C25: once processMessage is over for an entry whose processing failed,
\* an audit row of the entry exists and carries the error message.
C25_FailureAudited ==
  \A k \in failed :
    ~InProgress(k[3]) => \E r \in RowsOf(k[3]) : r.error # ""

\* C26: a readFromConsumerGroup call of the loop that is outstanding
\* eventually returns, whatever the block time and whether or not the group
\* has an undelivered entry.
C26_ReadReturns ==
  [](workers["w1"].pc = "read" => <>(workers["w1"].pc # "read"))

\* C29: once stop() was called on a worker whose loop is active, the loop
\* eventually exits.
C29_StopHonoured ==
  [](Stopped("w1") => <>(workers["w1"].pc = "done"))

\* The ConsumerService runs with startId '$' and the i-th entry is not yet
\* in the stream.
StartedBefore(i) == consumer.isRunning /\ consumer.startId = DOLLAR /\ ~HasEntry(i)

ConsumerProcessed(i) == HasEntry(i) /\ EntryId(i) \in consumer.processedMessages

\* C27: every entry appended after a ConsumerService was started with
\* startId '$' is eventually processed by it.
C27_NewMessages ==
  \A i \in 1..MaxWorkLog : [](StartedBefore(i) => [](HasEntry(i) => <>ConsumerProcessed(i)))

\* An acknowledged entry has its audit row and its handler was called.
C28_AfterInsertAndHandler ==
  \A k \in acked : k \in DOMAIN handled /\ RowsOf(k[3]) # {}

\* acknowledgeMessage is called only when handleEvent has returned without
\* throwing, and an entry is acknowledged only by that call for it.
C28_AckStep ==
  /\ \A w \in Workers :
       (workers[w].pc # "ack" /\ workers'[w].pc = "ack") =>
         /\ workers[w].pc = "handle"
         /\ handleEvent(Head(workers[w].batch).eventType) # "threw"
         /\ workers'[w].batch = workers[w].batch
  /\ \A k \in acked' \ acked :
       \E w \in Workers : /\ workers[w].pc = "ack"
                           /\ workers'[w].pc = "mark"
                           /\ k = <<workers[w].streamName, groupName(w), Head(workers[w].batch).id>>

\* C28: a grouped worker acknowledges an entry only after the audit insert
\* and the handler for that entry have both completed without error.
C28_AckAfterProcess == []C28_AfterInsertAndHandler /\ [][C28_AckStep]_vars

C28_Witness ==
  \E k \in acked : k \in DOMAIN handled /\ \E r \in RowsOf(k[3]) : r.processed

\* C30: an instance never has more than one polling loop that has not
\* exited.
C30_OneLoop == \A w \in Workers : ActiveLoops(w) <= 1

C32_ProcessedImpliesAcked ==
  \A r \in events :
    r.processed => /\ <<USER_EVENTS, "g1", r.streamId>> \in acked
                   /\ r.streamId \notin PendingIds(USER_EVENTS, "g1")

\* A processed row, next to the row of an entry that stayed pending.
C32_Witness ==
  /\ \E r \in events : r.processed
  /\ \E r \in events : ~r.processed /\ r.streamId \in PendingIds(USER_EVENTS, "g1")
                        /\ ~InProgress(r.streamId)

\* The consumer whose markEventAsProcessed or handleProcessingError call
\* returns in the step, as the consumerId its rows carry.
AuditWriters ==
  {<<groupName(w), consumerName(w)>> :
     w \in {v \in Workers : workers[v].pc \in {"mark", "error"} /\ workers'[v] # workers[v]}}
  \cup (IF consumer.pc \in {"mark", "error"} /\ consumer' # consumer
        THEN {<<"", CONSUMER_ID>>} ELSE {})

\* C33: a step changes the processed or error fields only of rows written
\* by the consumer whose audit update it is.
C33_AuditFrame ==
  [][\A r \in events \ events' : r.consumerId \in AuditWriters]_vars

\* The ConsumerService is in a run that was started from '0'.
RunFromZero == consumer.pc # "idle" /\ consumer.startId # DOLLAR

\* The run is in processMessage, for the first message of its batch.
ConsumerInProcessMessage == consumer.pc \in {"save", "mark", "error"}

\* The ids of the entries of the stream up to the cursor.
UpToCursor == {id \in Ids(EntriesOf(store, USER_EVENTS)) : IdLE(id, consumer.startId)}

\* What processMessage was called for is the entries up to the cursor, none
\* left out, each of them once; the message in hand is the entry that
\* follows the cursor.
C34_InOrder ==
  RunFromZero =>
    /\ consumer.processedMessages = UpToCursor
    /\ ConsumerInProcessMessage =>
         /\ EntriesAfter(EntriesOf(store, USER_EVENTS), consumer.startId) # <<>>
         /\ Head(consumer.batch) =
              Head(EntriesAfter(EntriesOf(store, USER_EVENTS), consumer.startId))
    /\ \A id \in consumer.processedMessages :
         LET k == <<USER_EVENTS, CONSUMER_ID, id>>
         IN  (IF k \in DOMAIN handled THEN handled[k] ELSE 0) + (IF k \in failed THEN 1 ELSE 0) = 1

\* The cursor of a run never decreases.
C34_CursorStep ==
  (RunFromZero /\ consumer'.pc # "idle" /\ consumer'.startId # DOLLAR) =>
    IdLE(consumer.startId, consumer'.startId)

\* C34: during a run from '0', while producers append, every entry of the
\* stream is passed to processMessage exactly once, in ascending id order,
\* none skipped, and the cursor never decreases.
C34_SimpleConsumer ==
  /\ []C34_InOrder
  /\ [][C34_CursorStep]_vars
  /\ \A i \in 1..MaxWorkLog : []((RunFromZero /\ HasEntry(i)) => <>ConsumerProcessed(i))

\* One run has processed two entries and its cursor is at the second.
C34_Witness ==
  /\ RunFromZero
  /\ Cardinality(consumer.processedMessages) = 2
  /\ consumer.startId = EntryId(2)

\* The i-th entry of stream s exists while startConsumingMultiple runs.
MultiAwaits(s, i) ==
  consumer.isRunning /\ consumer.streams # <<>> /\ Exists(store, s) /\ i <= Len(store[s].entries)

\* processMessage was called for the i-th entry of stream s.
MultiPassed(s, i) ==
  /\ Exists(store, s) /\ i <= Len(store[s].entries)
  /\ LET k == <<s, CONSUMER_ID, store[s].entries[i].id>>
     IN  k \in DOMAIN handled \/ k \in failed

\* C35: during a run of startConsumingMultiple every entry of every
\* subscribed stream is eventually passed to processMessage.
C35_EveryStream ==
  \A s \in MultiStreams, i \in 1..MaxMultiLog : [](MultiAwaits(s, i) => <>MultiPassed(s, i))

\* C36: when a POST /api/users or DELETE /api/users/:id request has been
\* answered, its database change has happened if and only if its event was
\* appended, and after an error response neither has happened.
C36_UserAndEvent ==
  (api.req.kind \in {"post", "delete"} /\ api.req.pc = "done") =>
    /\ api.req.dbChanged <=> api.req.appended
    /\ api.req.status = 500 => ~api.req.dbChanged /\ ~api.req.appended

\* A batch request whose body does not pass the checks is answered 400 and
\* the stream holds what it held when the request came in.
C37_Rejected ==
  (api.req.kind = "batch" /\ ~ValidBody(api.req.body)) =>
    /\ api.req.status = 400
    /\ StreamLen(USER_EVENTS) = api.req.before
    /\ Settled(client.cmds)

\* The step that takes such a request issues no command.
C37_NothingIssued ==
  (api'.req # api.req /\ api'.req.kind = "batch" /\ ~ValidBody(api'.req.body)) =>
    client' = client /\ store' = store

\* C37: POST /api/events/batch with an events field that is no array, is
\* empty, or holds an event lacking streamName, eventType or payload
\* responds 400 and appends nothing, also when earlier events are valid.
C37_ValidationFirst == []C37_Rejected /\ [][C37_NothingIssued]_vars

\* An earlier batch was published, and a batch whose first event is valid
\* and whose second lacks the payload has been answered 400.
C37_Witness ==
  /\ api.req.kind = "batch"
  /\ api.req.status = 400
  /\ api.req.body.events = <<Event("user.created"), NoPayload>>
  /\ StreamLen(USER_EVENTS) > 0

\* C38: a batchPublish call that returned gives one id per input event, the
\* i-th id is the id of an entry appended for the i-th event, and the ids
\* increase in input order (the events of the batch go to one stream).
C38_Alignment ==
  (client.kind = "batchPublish" /\ client.reply.status = "returned") =>
    LET ids == client.reply.ids
        entries == EntriesOf(store, USER_EVENTS)
    IN  /\ Len(ids) = Len(client.cmds)
        /\ \A i \in 1..Len(ids) :
             \E j \in 1..Len(entries) : /\ entries[j].id = ids[i]
                                         /\ entries[j].eventType = client.cmds[i].eventType
        /\ \A i, k \in 1..Len(ids) : i < k => IdLT(ids[i], ids[k])

\* A batch of two events of different types has returned its two ids.
C38_Witness ==
  /\ client.kind = "batchPublish"
  /\ client.reply.status = "returned"
  /\ Len(client.reply.ids) = 2
  /\ client.cmds[1].eventType # client.cmds[2].eventType

\* C39: what monitorStream has reported is the entries appended since its
\* first read, in order, none left out and none twice.
C39_NothingMissed ==
  monitor.pc # "idle" =>
    /\ monitor.since + Len(monitor.reported) <= StreamLen(USER_EVENTS)
    /\ \A i \in 1..Len(monitor.reported) :
         monitor.reported[i] = EntriesOf(store, USER_EVENTS)[monitor.since + i].id
====
